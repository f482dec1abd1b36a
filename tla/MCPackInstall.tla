--------------------------- MODULE MCPackInstall ---------------------------
(* Constants of the TLC runs of PackInstall. *)
EXTENDS PackInstall

\* A registry pack in two versions, the same pack from npm, and a source of each
\* other kind.
SomeSources == {<<"registry", "widget", 1>>, <<"registry", "widget", 2>>,
                <<"npm", "widget", 1>>, <<"git", "tools", 1>>, <<"local", "tools", 1>>}
=============================================================================

---------------------------- MODULE MCPackChecks ----------------------------
(* Constants of the TLC runs of Screening and LocalPacks.  A behaviour is of  *)
(* one or of the other.                                                     *)
EXTENDS Screening, LocalPacks, TLC

Src == <<"src">>
Lib == <<"lib">>
Below(folder) == Append(folder, "f")

Plain == [id |-> "first", reasoning |-> FALSE, patterns |-> {Src}, code |-> "step",
          ends |-> "returns", writes |-> {Below(Src)}, sentinel |-> "none",
          validator |-> "silent", tsc |-> "passes"]
Second == [Plain EXCEPT !.id = "second", !.patterns = {Lib}, !.writes = {Below(Lib)}]
Reasoning == [Plain EXCEPT !.id = "first", !.reasoning = TRUE, !.sentinel = "renders"]

Tree(recipes) == [manifest |-> TRUE, constructs |-> {}, recipes |-> recipes,
                  packValidator |-> "silent"]
Construct(kind, name) == [kind |-> kind, name |-> name, dir |-> Src]
With(constructs) == [Tree(<<Plain>>) EXCEPT !.constructs = constructs]

\* A pack that is fine; one whose second recipe writes where only the first
\* may; ones that fail at each layer, or at the gate after it.
MCTrees ==
    {Tree(<<Plain, Second>>),
     Tree(<<Plain, [Second EXCEPT !.writes = {Below(Lib), Below(Src)}]>>),
     Tree(<<Plain, [Second EXCEPT !.ends = "throws"]>>),
     Tree(<<Reasoning, [Second EXCEPT !.tsc = "fails"]>>),
     Tree(<<Reasoning>>),
     [Tree(<<[Reasoning EXCEPT !.sentinel = "breaks", !.code = "none"]>>) EXCEPT !.packValidator = "silent"],
     [Tree(<<Plain>>) EXCEPT !.packValidator = "missing"],
     [Tree(<<[Plain EXCEPT !.validator = "reports"]>>) EXCEPT !.packValidator = "missing"],
     [Tree(<<Plain>>) EXCEPT !.manifest = FALSE],
     With({Construct("import", <<"node", "http">>)}),
     With({Construct("write", Below(Lib))}),
     With({Construct("helper", <<"slot", "title">>)}),
     With({[Construct("call", <<"fetch">>) EXCEPT !.dir = <<"out">>],
           Construct("dynamic import", <<"node", "path">>),
           Construct("write", Computed), Construct("helper", <<"if", "x">>)})}

Pack(hash, source) ==
    [export |-> "Manifest", version |-> "1", hash |-> hash,
     template |-> [source |-> source, constructs |-> {"param", "slot"}]]

\* Two packs of one version that differ in their files, and one whose manifest
\* does not load.
MCScopes == <<"project", "user">>
MCPacks ==
    {Pack("h1", "t1"), Pack("h2", "t2"),
     [Pack("h3", "t2") EXCEPT !.export = "broken", !.template.constructs = {"unless"}]}

Init == ScreenInit /\ LocalInit
Next ==
    \/ ScreenNext /\ done.changes = 0 /\ UNCHANGED localVars
    \/ LocalNext /\ version = NoVersion /\ UNCHANGED screenVars
RunSymmetry == Permutations(Runs)
Spec == Init /\ [][Next]_<<screenVars, localVars>>
=============================================================================

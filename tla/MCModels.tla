------------------------------ MODULE MCModels ------------------------------
(***************************************************************************)
(* Small directory trees: in some the three models of models/block vary,   *)
(* with every graph of parents on them, and one of them may define that it *)
(* has no elements; in others what is beside them.                         *)
(***************************************************************************)
EXTENDS Models, TLC

CONSTANT Other      \* the content of a file that is no model

mc == "mc"

ModelPath(name) == <<mc, "models", "block", name>>

MCBaseName == ("a.json" :> "a") @@ ("b.json" :> "b") @@ ("c.json" :> "c")

Ids == {<<mc, "a">>, <<mc, "b">>, <<mc, "c">>}

MCId == Ids \cup {<<mc, "none">>, <<"ns", "a">>}

Directories(paths) == [path \in paths |-> Directory]

Above == Directories({<<mc>>, <<mc, "models">>, <<mc, "models", "block">>})

ModelA == [parent |-> NoParent, elements |-> "some", ao |-> FALSE]

\* Every parent, and elements or not; ambient occlusion off where there is no parent.
Varying(elements) ==
    {[parent |-> parent, elements |-> e, ao |-> parent # NoParent] :
        parent \in Ids \cup {<<mc, "none">>, NoParent}, e \in elements}

GraphStorages ==
    {<<Above @@ (ModelPath("a.json") :> a) @@ (ModelPath("b.json") :> b) @@ (ModelPath("c.json") :> c)>> :
        a \in Varying({"absent", "empty", "some"}),
        b \in Varying({"absent", "some"}), c \in Varying({"absent", "some"})}

\* Directories and files beside, a model that does not parse, a directory with
\* the name of a model, and the same directories in two storages.
Beside == Directories({<<mc, "textures">>, <<mc, "models", "item">>}) @@
          (<<mc, "textures", "a.json">> :> Other) @@ (<<mc, "models", "item", "a.json">> :> ModelA) @@
          (ModelPath("readme") :> Other) @@ (<<"readme">> :> Other)

Small == Above @@ (ModelPath("a.json") :> ModelA)

OtherStorages ==
    {<<Small @@ Beside>>,
     <<Small @@ (ModelPath("b.json") :> Other)>>,
     <<Small @@ Directories({ModelPath("b.json")})>>,
     <<Small, Directories({<<mc>>, <<"ns">>, <<"ns", "models">>, <<"ns", "models", "block">>}) @@
              (<<"ns", "models", "block", "a.json">> :> [ModelA EXCEPT !.parent = <<mc, "a">>])>>,
     <<Small, Above @@ (ModelPath("a.json") :> [ModelA EXCEPT !.elements = "absent"])>>}

MCStorageLists == GraphStorages \cup OtherStorages
=============================================================================

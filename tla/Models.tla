------------------------------- MODULE Models -------------------------------
(***************************************************************************)
(* resource::manager::load on the tree Vfs has built: the models of every  *)
(* namespace are read from their files, then each takes from its parent    *)
(* what it lacks.  finalize calls itself for a parent that is not yet      *)
(* final, and the models are visited in the order of an unordered_map.     *)
(*                                                                         *)
(* Elements are those some file defines: {} or the set of that model's id. *)
(* A file that parses is its parent; what it says of elements: nothing     *)
(* ("absent"), that there are none ("empty", the array []), or what they   *)
(* are ("some"); and its ambientocclusion.                                 *)
(***************************************************************************)
EXTENDS Vfs

CONSTANTS
    Id,             \* ids of models: those loaded, and others named as parents
    BaseName,       \* the names that end in .json, and what is before that
    NoParent,
    Nothing,        \* what reading a directory gives
    MaxDepth        \* how many calls of finalize the stack has room for

ModelFile == [parent : Id \cup {NoParent}, elements : {"absent", "empty", "some"}, ao : BOOLEAN]

\* An id is a namespace and a name.
ASSUME ModelsAssumption ==
    /\ \A id \in Id : id = <<id[1], id[2]>>
    /\ NoParent \notin Id
    /\ Nothing \notin ModelFile /\ Directory \notin ModelFile
    /\ MaxDepth \in Nat \ {0}

VARIABLES
    m_next,         \* load: the node it is at
    m_resources,    \* the models, by id
    unvisited,      \* the models the loop over m_resources is yet to come to
    stack           \* the models whose finalize has been called, outermost first

vars == <<vfsVars, m_next, m_resources, unvisited, stack>>

Init ==
    /\ VfsInit
    /\ m_next = 1
    /\ m_resources = [id \in {} |-> id]
    /\ unvisited = {}
    /\ stack = <<>>

Building == build_tree /\ UNCHANGED <<m_next, m_resources, unvisited, stack>>

TreeUnchanged == UNCHANGED <<m_storages, s, m_iterators, m_path, current, m_entries>>

-----------------------------------------------------------------------------
\* What load looks at: the .json entries of models/block in a namespace.
IsBlockModel(n) ==
    /\ m_entries[n].name \in DOMAIN BaseName
    /\ \E namespace \in DOMAIN m_entries :
          LET models == find(namespace, "models")
          IN  /\ m_entries[namespace].parent = Root
              /\ models # NoNode
              /\ m_entries[n].parent = find(models, "block")

ModelId(n) == <<generate_path(n)[1], BaseName[m_entries[n].name]>>

\* Slip: the path of the node's directory used.
read_file_OfParent(n) ==
    LET storage == m_entries[n].storage
    IN  IF storage = 0 THEN Nothing ELSE m_storages[storage][generate_path(m_entries[n].parent)]

\* vfs::read_file: the storage of the node reads the node's path.
read_file(n) ==
    LET storage == m_entries[n].storage
    IN  IF storage = 0 THEN Nothing ELSE m_storages[storage][generate_path(n)]

skip_node ==
    /\ stage = "loading" /\ m_next <= Len(m_entries)
    /\ ~IsBlockModel(m_next)
    /\ m_next' = m_next + 1
    /\ UNCHANGED <<vfsVars, m_resources, unvisited, stack>>

\* model_object's constructor: own is what m_load_data has of elements, which is
\* the same for a file without the array and for one with an empty array.
Parsed(id, file) ==
    [file |-> file, loading |-> TRUE, own |-> IF file.elements = "some" THEN {id} ELSE {},
     elements |-> {}, ao |-> file.ao]

\* One of the models found is made and put into m_resources under its id.
load_model(id) ==
    /\ stage = "loading" /\ m_next <= Len(m_entries)
    /\ IsBlockModel(m_next) /\ id = ModelId(m_next)
    /\ m_next' = m_next + 1
    /\ \/ /\ read_file(m_next) \in ModelFile
          /\ m_resources' = [i \in DOMAIN m_resources \cup {id} |->
                                IF i = id THEN Parsed(id, read_file(m_next)) ELSE m_resources[i]]
          /\ UNCHANGED stage
       \/ /\ read_file(m_next) \notin ModelFile
          /\ stage' = "bad_model"
          /\ UNCHANGED m_resources
    /\ TreeUnchanged /\ UNCHANGED <<unvisited, stack>>

\* host_storage::read_file cannot open the file: what is parsed then is empty,
\* and nothing catches what the parser throws.
model_unreadable ==
    /\ stage = "loading" /\ m_next <= Len(m_entries)
    /\ IsBlockModel(m_next) /\ m_entries[m_next].storage # 0
    /\ stage' = "io_error"
    /\ TreeUnchanged /\ UNCHANGED <<m_next, m_resources, unvisited, stack>>

models_loaded ==
    /\ stage = "loading" /\ m_next > Len(m_entries)
    /\ stage' = "finalizing"
    /\ unvisited' = DOMAIN m_resources
    /\ TreeUnchanged /\ UNCHANGED <<m_next, m_resources, stack>>

-----------------------------------------------------------------------------
Parent(id) == m_resources[id].file.parent

\* finalize begins: the elements are moved out of m_load_data.
Moved(model) == [model EXCEPT !.elements = model.own, !.own = {}]

\* The loop over m_resources comes to a model.
visit(id) ==
    /\ stage = "finalizing" /\ stack = <<>>
    /\ id \in unvisited
    /\ unvisited' = unvisited \ {id}
    /\ IF m_resources[id].loading
       THEN /\ m_resources' = [m_resources EXCEPT ![id] = Moved(@)]
            /\ stack' = <<id>>
       ELSE UNCHANGED <<m_resources, stack>>
    /\ UNCHANGED <<vfsVars, m_next>>

Finalizing(id) == stage = "finalizing" /\ stack # <<>> /\ id = stack[Len(stack)]

\* The parent is not final: its finalize is called, if the stack has room.
finalize_parent(id) ==
    /\ Finalizing(id)
    /\ Parent(id) \in DOMAIN m_resources /\ m_resources[Parent(id)].loading
    /\ \/ /\ Len(stack) < MaxDepth
          /\ m_resources' = [m_resources EXCEPT ![Parent(id)] = Moved(@)]
          /\ stack' = Append(stack, Parent(id))
          /\ UNCHANGED stage
       \/ /\ Len(stack) = MaxDepth
          /\ stage' = "overflow"
          /\ UNCHANGED <<m_resources, stack>>
    /\ TreeUnchanged /\ UNCHANGED <<m_next, unvisited>>

\* Slip: m_load_data not reset.
Finalized_NotReset(id, elements, ao) ==
    /\ m_resources' = [m_resources EXCEPT ![id] = [@ EXCEPT !.elements = elements, !.ao = ao]]
    /\ stack' = Front(stack)
    /\ UNCHANGED <<vfsVars, m_next, unvisited>>

\* finalize ends: m_load_data is reset.
Finalized(id, elements, ao) ==
    /\ m_resources' = [m_resources EXCEPT ![id] =
                           [@ EXCEPT !.elements = elements, !.ao = ao, !.loading = FALSE]]
    /\ stack' = Front(stack)
    /\ UNCHANGED <<vfsVars, m_next, unvisited>>

finalize_root(id) ==
    /\ Finalizing(id)
    /\ Parent(id) = NoParent
    /\ Finalized(id, m_resources[id].elements, m_resources[id].ao)

\* Slip: the parent's elements used even if it has its own.
inherit_Always(id) ==
    /\ Finalizing(id)
    /\ Parent(id) \in DOMAIN m_resources /\ ~m_resources[Parent(id)].loading
    /\ Finalized(id, m_resources[Parent(id)].elements, m_resources[Parent(id)].ao)

\* What the model lacks is the parent's, which is final: elements if it has none,
\* whether its file defines none or says nothing of them.
inherit(id) ==
    /\ Finalizing(id)
    /\ Parent(id) \in DOMAIN m_resources /\ ~m_resources[Parent(id)].loading
    /\ LET parent == m_resources[Parent(id)]
           elements == m_resources[id].elements
       IN  Finalized(id, IF elements = {} THEN parent.elements ELSE elements, parent.ao)

\* The parent is not there: not_found_sentinel is taken for it.
inherit_sentinel(id) ==
    /\ Finalizing(id)
    /\ Parent(id) # NoParent /\ Parent(id) \notin DOMAIN m_resources
    /\ Finalized(id, m_resources[id].elements, TRUE)

\* Slip: not every model visited.
models_final_Early ==
    /\ stage = "finalizing" /\ stack = <<>>
    /\ stage' = "running"
    /\ TreeUnchanged /\ UNCHANGED <<m_next, m_resources, unvisited, stack>>

models_final ==
    /\ stage = "finalizing" /\ stack = <<>> /\ unvisited = {}
    /\ stage' = "running"
    /\ TreeUnchanged /\ UNCHANGED <<m_next, m_resources, unvisited, stack>>

-----------------------------------------------------------------------------
finalize(id) ==
    visit(id) \/ finalize_parent(id) \/ finalize_root(id) \/ inherit(id) \/ inherit_sentinel(id)

Next ==
    \/ Building
    \/ skip_node \/ (\E id \in Id : load_model(id)) \/ model_unreadable \/ models_loaded
    \/ (\E id \in Id : finalize(id)) \/ models_final

\* main does nothing else until the tree and the models are there.
Spec == Init /\ [][Next]_vars /\ WF_vars(Next)

-----------------------------------------------------------------------------
\* Every model there may be.
Model == [file : ModelFile, loading : BOOLEAN, own : SUBSET Id, elements : SUBSET Id, ao : BOOLEAN]

\* The models are those whose files are in models/block of a namespace, each
\* under its own id and with what is in its own file, unless loading has failed
\* because one of these does not parse (load, the path of the node it reads).
LoadsWhatIsThere ==
    LET IsModelOf(id, path) ==
            /\ Len(path) = 4 /\ path[1] = id[1] /\ path[2] = "models" /\ path[3] = "block"
            /\ path[4] \in DOMAIN BaseName /\ BaseName[path[4]] = id[2]
        There(id, i) == {path \in DOMAIN m_storages[i] : IsModelOf(id, path)}
        Contents(id) ==
            UNION {{m_storages[i][path] : path \in There(id, i)} : i \in DOMAIN m_storages}
    IN  /\ \A id \in DOMAIN m_resources : m_resources[id].file \in Contents(id)
        /\ stage \in {"finalizing", "running", "overflow"} =>
              \A id \in Id : id \in DOMAIN m_resources <=> Contents(id) # {}
        /\ stage = "bad_model" => \E id \in Id : \E content \in Contents(id) : content \notin ModelFile

\* A model that is final has the elements its file has, or, if that says nothing of
\* elements, those of its parent, and the parent's ambient occlusion, whatever
\* order the models were visited in and however many models were being finalized
\* above it (finalize).  Nothing is said of a file that defines an empty
\* array: the code gives it its parent's elements, by a test its FIXME calls incorrect
\* (model.cc:177).
Inherits ==
    \A id \in DOMAIN m_resources :
        LET model == m_resources[id]
            found == Parent(id) \in DOMAIN m_resources
        IN  ~model.loading =>
                /\ found => ~m_resources[Parent(id)].loading
                /\ model.file.elements = "some" => model.elements = {id}
                /\ model.file.elements = "absent" =>
                      model.elements = IF found THEN m_resources[Parent(id)].elements ELSE {}
                /\ model.ao = IF Parent(id) = NoParent THEN model.file.ao
                              ELSE IF found THEN m_resources[Parent(id)].ao ELSE TRUE

\* Some models are each other's ancestors.
Cyclic ==
    \E ids \in (SUBSET DOMAIN m_resources) \ {{}} : \A id \in ids : Parent(id) \in ids

\* The main loop begins only with every model final, so never if some are each
\* other's ancestors.
RunsFinal ==
    stage = "running" => ~Cyclic /\ \A id \in DOMAIN m_resources : ~m_resources[id].loading

\* The main loop begins, unless a directory or a model cannot be read, or models
\* are each other's ancestors, which ends the stack.
LoadEnds == <>(stage \in {"running", "io_error", "bad_model"} \/ (stage = "overflow" /\ Cyclic))
=============================================================================

---------------------------- MODULE ModelsProofs ----------------------------
(***************************************************************************)
(* Proofs about loading, from the directories to the final models: for     *)
(* every list of directory trees and every order their entries are read    *)
(* in, the tree built has exactly what is there and the models are those   *)
(* of its files; for every order the models are visited in and every depth *)
(* of the stack, a final model has what its ancestors give it, and models  *)
(* that are each other's ancestors are never final.                        *)
(***************************************************************************)
EXTENDS Models, SequenceTheorems, Induction, FunctionTheorems, TLAPS

OwnElements(id) == IF m_resources[id].file.elements = "some" THEN {id} ELSE {}

InStack(id) == \E i \in 1..Len(stack) : stack[i] = id

Top == stack[Len(stack)]

ResourcesType ==
    /\ DOMAIN m_resources \subseteq Id
    /\ m_resources \in [DOMAIN m_resources -> Model]
    /\ stack \in Seq(DOMAIN m_resources)

\* What Inherits says of one model.
InheritsAt(id) ==
    LET model == m_resources[id]
        found == Parent(id) \in DOMAIN m_resources
    IN  /\ found => ~m_resources[Parent(id)].loading
        /\ model.file.elements = "some" => model.elements = {id}
        /\ model.file.elements = "absent" =>
              model.elements = IF found THEN m_resources[Parent(id)].elements ELSE {}
        /\ model.ao = IF Parent(id) = NoParent THEN model.file.ao
                      ELSE IF found THEN m_resources[Parent(id)].ao ELSE TRUE

\* Before any model is visited nothing is final.
LoadingInv ==
    /\ unvisited \subseteq DOMAIN m_resources
    /\ stage \notin {"finalizing", "running", "overflow"} =>
          stack = <<>> /\ \A id \in DOMAIN m_resources : m_resources[id].loading
    /\ stage = "running" => \A id \in DOMAIN m_resources : ~m_resources[id].loading
    /\ stage = "finalizing" =>
          \A id \in DOMAIN m_resources : m_resources[id].loading => id \in unvisited \/ InStack(id)

\* A model that is not final has the ambient occlusion of its file, and its
\* elements where its constructor left them until its finalize is called.
FreshInv ==
    \A id \in DOMAIN m_resources :
        m_resources[id].loading =>
            /\ m_resources[id].ao = m_resources[id].file.ao
            /\ ~InStack(id) => m_resources[id].own = OwnElements(id)

\* Each model in the stack has called its parent, and has its own elements unless
\* the calls go round in a circle, which they never leave.
StackInv ==
    /\ \A i \in 1..Len(stack) : m_resources[stack[i]].loading
    /\ \A i \in 1..(Len(stack) - 1) : stack[i + 1] = Parent(stack[i])
    /\ \/ \A i \in 1..Len(stack) : m_resources[stack[i]].elements = OwnElements(stack[i])
       \/ InStack(Parent(Top))

\* No set of final models has all its parents among them.
NoCycleIsFinal ==
    \A ids \in SUBSET DOMAIN m_resources :
        ids # {} => \E id \in ids : m_resources[id].loading \/ Parent(id) \notin ids

ModelsInv ==
    ResourcesType /\ LoadingInv /\ FreshInv /\ StackInv /\ Inherits /\ NoCycleIsFinal

modelVars == <<m_resources, stack, unvisited, stage>>

-----------------------------------------------------------------------------
LEMMA InheritsEverywhere ==
    Inherits <=> \A id \in DOMAIN m_resources : ~m_resources[id].loading => InheritsAt(id)
BY DEF Inherits, InheritsAt

LEMMA InitModelsInv == Init => ModelsInv
BY DEF Init, VfsInit, ModelsInv, ResourcesType, LoadingInv, FreshInv, StackInv, Inherits,
       NoCycleIsFinal, InStack

\* It is still said of a model if neither that nor its parent has changed.
LEMMA InheritsAsBefore ==
    ASSUME NEW id, InheritsAt(id), m_resources'[id] = m_resources[id],
           Parent(id)' = Parent(id), DOMAIN m_resources' = DOMAIN m_resources,
           Parent(id) \in DOMAIN m_resources => m_resources'[Parent(id)] = m_resources[Parent(id)]
    PROVE  InheritsAt(id)'
<1>1. PICK p : p = Parent(id) /\ p = Parent(id)'
  OBVIOUS
<1>2. CASE p \in DOMAIN m_resources
  <2>1. /\ ~m_resources[p].loading
        /\ m_resources[id].file.elements = "some" => m_resources[id].elements = {id}
        /\ m_resources[id].file.elements = "absent" => m_resources[id].elements = m_resources[p].elements
        /\ m_resources[id].ao = IF p = NoParent THEN m_resources[id].file.ao ELSE m_resources[p].ao
    BY <1>1, <1>2, Zenon DEF InheritsAt
  <2>2. m_resources'[p] = m_resources[p] /\ p \in DOMAIN m_resources'
    BY <1>1, <1>2
  <2>3. /\ ~m_resources'[p].loading
        /\ m_resources'[id].file.elements = "some" => m_resources'[id].elements = {id}
        /\ m_resources'[id].file.elements = "absent" => m_resources'[id].elements = m_resources'[p].elements
        /\ m_resources'[id].ao = IF p = NoParent THEN m_resources'[id].file.ao ELSE m_resources'[p].ao
    BY <2>1, <2>2
  <2> QED BY <1>1, <2>2, <2>3, Zenon DEF InheritsAt
<1>3. CASE p \notin DOMAIN m_resources
  <2>1. /\ m_resources[id].file.elements = "some" => m_resources[id].elements = {id}
        /\ m_resources[id].file.elements = "absent" => m_resources[id].elements = {}
        /\ m_resources[id].ao = IF p = NoParent THEN m_resources[id].file.ao ELSE TRUE
    BY <1>1, <1>3, Zenon DEF InheritsAt
  <2>2. p \notin DOMAIN m_resources'
    BY <1>3
  <2>3. /\ m_resources'[id].file.elements = "some" => m_resources'[id].elements = {id}
        /\ m_resources'[id].file.elements = "absent" => m_resources'[id].elements = {}
        /\ m_resources'[id].ao = IF p = NoParent THEN m_resources'[id].file.ao ELSE TRUE
    BY <2>1
  <2> QED BY <1>1, <2>2, <2>3, Zenon DEF InheritsAt
<1> QED BY <1>2, <1>3

\* What is said of models and of the stack only.
LEMMA SameModels ==
    ASSUME ModelsInv, UNCHANGED <<m_resources, stack>>
    PROVE  FreshInv' /\ StackInv' /\ Inherits' /\ NoCycleIsFinal'
<1>1. FreshInv' /\ StackInv' /\ NoCycleIsFinal'
  BY DEF ModelsInv, FreshInv, StackInv, NoCycleIsFinal, InStack, OwnElements, Parent, Top
<1>2. Inherits'
  <2>1. \A id \in DOMAIN m_resources : ~m_resources[id].loading => InheritsAt(id)
    BY InheritsEverywhere DEF ModelsInv
  <2>2. ASSUME NEW id \in DOMAIN m_resources, ~m_resources'[id].loading PROVE InheritsAt(id)'
    <3>1. Parent(id)' = Parent(id)
      BY DEF Parent
    <3>2. m_resources'[id] = m_resources[id] /\ DOMAIN m_resources' = DOMAIN m_resources
          /\ (Parent(id) \in DOMAIN m_resources => m_resources'[Parent(id)] = m_resources[Parent(id)])
      OBVIOUS
    <3>3. InheritsAt(id)
      BY <2>1, <2>2, <3>2
    <3> QED BY <3>1, <3>2, <3>3, InheritsAsBefore
  <2>3. (\A id \in DOMAIN m_resources : ~m_resources[id].loading => InheritsAt(id))'
    BY <2>2
  <2> QED BY <2>3 DEF Inherits, InheritsAt
<1> QED BY <1>1, <1>2

\* Steps that change no model and no call.
LEMMA QuietInv ==
    ASSUME ModelsInv, UNCHANGED <<m_resources, stack>>,
           \/ UNCHANGED <<stage, unvisited>>
           \/ stage \notin {"finalizing", "running", "overflow"}
              /\ stage' \in {"loading", "io_error", "bad_model"} /\ UNCHANGED unvisited
           \/ stage' = "finalizing" /\ unvisited' = DOMAIN m_resources
           \/ stage' = "overflow" /\ UNCHANGED unvisited
           \/ stage = "finalizing" /\ stack = <<>> /\ unvisited = {} /\ stage' = "running"
              /\ UNCHANGED unvisited
    PROVE  ModelsInv'
<1>1. FreshInv' /\ StackInv' /\ Inherits' /\ NoCycleIsFinal'
  BY SameModels
<1>2. ResourcesType'
  BY DEF ModelsInv, ResourcesType
<1>3. LoadingInv'
  <2>1. \A id : InStack(id)' <=> InStack(id)
    BY DEF InStack
  <2>2. CASE UNCHANGED <<stage, unvisited>>
    BY <2>1, <2>2 DEF ModelsInv, LoadingInv
  <2>3. CASE stage \notin {"finalizing", "running", "overflow"}
             /\ stage' \in {"loading", "io_error", "bad_model"} /\ UNCHANGED unvisited
    BY <2>3 DEF ModelsInv, LoadingInv
  <2>4. CASE stage' = "finalizing" /\ unvisited' = DOMAIN m_resources
    BY <2>4 DEF LoadingInv
  <2>5. CASE stage' = "overflow" /\ UNCHANGED unvisited
    BY <2>5 DEF ModelsInv, LoadingInv
  <2>6. CASE stage = "finalizing" /\ stack = <<>> /\ unvisited = {} /\ stage' = "running"
             /\ UNCHANGED unvisited
    BY <2>6 DEF ModelsInv, LoadingInv, InStack
  <2> QED BY <2>2, <2>3, <2>4, <2>5, <2>6
<1> QED BY <1>1, <1>2, <1>3 DEF ModelsInv

LEMMA BuildingInv == ModelsInv /\ Building => ModelsInv'
BY QuietInv DEF Building, build_tree, create_iterator, next_end, storage_fails, tree_built,
                next_file, next_directory, Entry

LEMMA LoadInv == ASSUME ModelsInv, NEW id \in Id, load_model(id) PROVE ModelsInv'
<1>1. CASE UNCHANGED m_resources
  BY <1>1, QuietInv DEF load_model
<1>2. CASE /\ read_file(m_next) \in ModelFile
           /\ m_resources' = [i \in DOMAIN m_resources \cup {id} |->
                                 IF i = id THEN Parsed(id, read_file(m_next)) ELSE m_resources[i]]
           /\ UNCHANGED stage
  <2> DEFINE new == Parsed(id, read_file(m_next))
  <2>1. new \in Model /\ new.loading /\ new.own = (IF new.file.elements = "some" THEN {id} ELSE {})
        /\ new.ao = new.file.ao
    BY <1>2 DEF Parsed, Model, ModelFile
  <2> HIDE DEF new
  <2>2. /\ stage = "loading" /\ stage' = "loading"
        /\ stack = <<>> /\ stack' = <<>>
        /\ \A i \in DOMAIN m_resources : m_resources[i].loading
    BY <1>2 DEF load_model, ModelsInv, LoadingInv
  <2>3. /\ DOMAIN m_resources' = DOMAIN m_resources \cup {id}
        /\ \A i \in DOMAIN m_resources' :
              m_resources'[i] = IF i = id THEN new ELSE m_resources[i]
        /\ m_resources' \in [DOMAIN m_resources' -> Model]
    BY <1>2, <2>1 DEF new, ModelsInv, ResourcesType
  <2>4. \A i \in DOMAIN m_resources' : m_resources'[i].loading
    BY <2>1, <2>2, <2>3
  <2>5. ResourcesType'
    BY <2>2, <2>3 DEF ModelsInv, ResourcesType
  <2>6. LoadingInv' /\ StackInv' /\ Inherits' /\ NoCycleIsFinal'
    <3>1. LoadingInv'
      BY <2>2, <2>3, <2>4 DEF load_model, ModelsInv, LoadingInv
    <3>2. StackInv'
      BY <2>2 DEF StackInv
    <3>3. Inherits'
      BY <2>4 DEF Inherits
    <3>4. NoCycleIsFinal'
      BY <2>4 DEF NoCycleIsFinal
    <3> QED BY <3>1, <3>2, <3>3, <3>4
  <2>7. FreshInv'
    BY <2>1, <2>2, <2>3 DEF ModelsInv, FreshInv, InStack, OwnElements
  <2> QED BY <2>5, <2>6, <2>7 DEF ModelsInv
<1> QED BY <1>1, <1>2 DEF load_model

-----------------------------------------------------------------------------
\* What a call of finalize does to the models.
LEMMA CallProperties ==
    ASSUME ModelsInv, NEW id \in DOMAIN m_resources, m_resources[id].loading,
           m_resources' = [m_resources EXCEPT ![id] = Moved(@)]
    PROVE  /\ DOMAIN m_resources' = DOMAIN m_resources
           /\ m_resources' \in [DOMAIN m_resources' -> Model]
           /\ \A i \in DOMAIN m_resources : i # id => m_resources'[i] = m_resources[i]
           /\ \A i \in DOMAIN m_resources :
                 /\ m_resources'[i].file = m_resources[i].file
                 /\ m_resources'[i].loading = m_resources[i].loading
                 /\ m_resources'[i].ao = m_resources[i].ao
           /\ m_resources'[id].elements = m_resources[id].own
<1>1. m_resources \in [DOMAIN m_resources -> Model] /\ m_resources[id] \in Model
  BY DEF ModelsInv, ResourcesType
<1>2. Moved(m_resources[id]) \in Model
      /\ Moved(m_resources[id]).file = m_resources[id].file
      /\ Moved(m_resources[id]).loading = m_resources[id].loading
      /\ Moved(m_resources[id]).ao = m_resources[id].ao
      /\ Moved(m_resources[id]).elements = m_resources[id].own
  BY <1>1 DEF Moved, Model
<1>3. m_resources' = [i \in DOMAIN m_resources |->
                         IF i = id THEN Moved(m_resources[id]) ELSE m_resources[i]]
  OBVIOUS
<1> QED BY <1>1, <1>2, <1>3

\* A call of finalize leaves what is final as it is.
LEMMA CallInv ==
    ASSUME ModelsInv, NEW id \in DOMAIN m_resources, m_resources[id].loading,
           m_resources' = [m_resources EXCEPT ![id] = Moved(@)]
    PROVE  Inherits' /\ NoCycleIsFinal'
<1>1. /\ DOMAIN m_resources' = DOMAIN m_resources
      /\ \A i \in DOMAIN m_resources : i # id => m_resources'[i] = m_resources[i]
      /\ \A i \in DOMAIN m_resources :
            /\ m_resources'[i].file = m_resources[i].file
            /\ m_resources'[i].loading = m_resources[i].loading
            /\ m_resources'[i].ao = m_resources[i].ao
  BY CallProperties
<1>2. \A i \in DOMAIN m_resources : Parent(i)' = Parent(i)
  BY <1>1 DEF Parent
<1>3. Inherits'
  <2>1. ASSUME NEW i \in DOMAIN m_resources, ~m_resources'[i].loading PROVE InheritsAt(i)'
    <3>1. m_resources'[i] = m_resources[i] /\ InheritsAt(i)
      BY <1>1, <2>1, InheritsEverywhere DEF ModelsInv
    <3>2. Parent(i) \in DOMAIN m_resources => m_resources'[Parent(i)] = m_resources[Parent(i)]
      BY <1>1, <3>1 DEF InheritsAt
    <3>3. Parent(i)' = Parent(i) /\ DOMAIN m_resources' = DOMAIN m_resources
      BY <1>1, <1>2, Zenon
    <3>4. Parent(i) \in DOMAIN m_resources => ~m_resources[Parent(i)].loading
      BY <3>1, Zenon DEF InheritsAt
    <3> QED BY <3>1, <3>2, <3>3, <3>4, Zenon DEF InheritsAt
  <2>2. (\A i \in DOMAIN m_resources : ~m_resources[i].loading => InheritsAt(i))'
    BY <1>1, <2>1
  <2> QED BY <2>2 DEF Inherits, InheritsAt
<1>4. NoCycleIsFinal'
  BY <1>1, <1>2 DEF ModelsInv, NoCycleIsFinal
<1> QED BY <1>3, <1>4

LEMMA VisitInv == ASSUME ModelsInv, NEW id \in Id, visit(id) PROVE ModelsInv'
<1>0. /\ stage = "finalizing" /\ stage' = "finalizing" /\ stack = <<>>
      /\ id \in unvisited /\ unvisited' = unvisited \ {id}
  BY DEF visit, vfsVars
<1>1. CASE UNCHANGED <<m_resources, stack>> /\ (id \in DOMAIN m_resources => ~m_resources[id].loading)
  <2>1. FreshInv' /\ StackInv' /\ Inherits' /\ NoCycleIsFinal'
    BY <1>1, SameModels
  <2>2. ResourcesType'
    BY <1>0, <1>1 DEF ModelsInv, ResourcesType
  <2>3. LoadingInv'
    BY <1>0, <1>1 DEF ModelsInv, LoadingInv, InStack
  <2> QED BY <2>1, <2>2, <2>3 DEF ModelsInv
<1>2. CASE /\ id \in DOMAIN m_resources /\ m_resources[id].loading
           /\ m_resources' = [m_resources EXCEPT ![id] = Moved(@)]
           /\ stack' = <<id>>
  <2>1. /\ DOMAIN m_resources' = DOMAIN m_resources
        /\ m_resources' \in [DOMAIN m_resources' -> Model]
        /\ \A i \in DOMAIN m_resources : i # id => m_resources'[i] = m_resources[i]
        /\ \A i \in DOMAIN m_resources :
              /\ m_resources'[i].file = m_resources[i].file
              /\ m_resources'[i].loading = m_resources[i].loading
              /\ m_resources'[i].ao = m_resources[i].ao
        /\ m_resources'[id].elements = m_resources[id].own
    BY <1>2, CallProperties
  <2>2. \A i \in DOMAIN m_resources : OwnElements(i)' = OwnElements(i)
    BY <2>1 DEF OwnElements
  <2>3. m_resources[id].own = OwnElements(id)
    BY <1>0, <1>2 DEF ModelsInv, FreshInv, InStack
  <2>4. Len(stack') = 1 /\ stack'[1] = id
    BY <1>2
  <2>5. ResourcesType'
    BY <1>2, <2>1 DEF ModelsInv, ResourcesType
  <2>6. LoadingInv'
    BY <1>0, <2>1, <2>4 DEF ModelsInv, LoadingInv, InStack
  <2>7. FreshInv'
    BY <1>0, <2>1, <2>2, <2>4 DEF ModelsInv, FreshInv, InStack
  <2>8. StackInv'
    BY <1>2, <2>1, <2>2, <2>3, <2>4 DEF StackInv
  <2>9. Inherits' /\ NoCycleIsFinal'
    BY <1>2, CallInv
  <2> QED BY <2>5, <2>6, <2>7, <2>8, <2>9 DEF ModelsInv
<1>3. id \in DOMAIN m_resources
  BY <1>0 DEF ModelsInv, LoadingInv
<1> QED BY <1>1, <1>2, <1>3 DEF visit

-----------------------------------------------------------------------------
\* The model whose finalize runs.
LEMMA Running ==
    ASSUME ModelsInv, NEW id \in Id, Finalizing(id)
    PROVE  /\ stage = "finalizing" /\ Len(stack) \in Nat \ {0} /\ Len(stack) \in 1..Len(stack)
           /\ stack[Len(stack)] = id /\ Top = id
           /\ id \in DOMAIN m_resources /\ m_resources[id].loading
           /\ \A i \in 1..Len(stack) : stack[i] \in DOMAIN m_resources
<1>1. stack \in Seq(DOMAIN m_resources)
  BY DEF ModelsInv, ResourcesType
<1>2. Len(stack) \in Nat \ {0}
  BY <1>1, EmptySeq DEF Finalizing
<1>3. Len(stack) \in 1..Len(stack)
  BY <1>2
<1>4. \A i \in 1..Len(stack) : stack[i] \in DOMAIN m_resources
  BY <1>1
<1>5. m_resources[stack[Len(stack)]].loading
  BY <1>3 DEF ModelsInv, StackInv
<1> QED BY <1>2, <1>3, <1>4, <1>5 DEF Finalizing, Top

\* The parent's finalize is called.  If it has been called before, the calls go
\* round: its parent too is in the stack.
LEMMA FinalizeParentInv == ASSUME ModelsInv, NEW id \in Id, finalize_parent(id) PROVE ModelsInv'
<1> DEFINE p == Parent(id)
           n == Len(stack)
<1>0. Finalizing(id) /\ p \in DOMAIN m_resources /\ m_resources[p].loading /\ UNCHANGED unvisited
  BY DEF finalize_parent
<1>r. /\ stage = "finalizing" /\ n \in Nat \ {0} /\ n \in 1..n
      /\ stack[n] = id /\ Top = id
      /\ \A i \in 1..n : stack[i] \in DOMAIN m_resources
  BY <1>0, Running
<1>1. CASE stage' = "overflow" /\ UNCHANGED <<m_resources, stack>>
  BY <1>0, <1>1, QuietInv
<1>2. CASE /\ m_resources' = [m_resources EXCEPT ![p] = Moved(@)]
           /\ stack' = Append(stack, p)
           /\ UNCHANGED stage
  <2>1. /\ DOMAIN m_resources' = DOMAIN m_resources
        /\ m_resources' \in [DOMAIN m_resources' -> Model]
        /\ \A i \in DOMAIN m_resources : i # p => m_resources'[i] = m_resources[i]
        /\ \A i \in DOMAIN m_resources :
              /\ m_resources'[i].file = m_resources[i].file
              /\ m_resources'[i].loading = m_resources[i].loading
              /\ m_resources'[i].ao = m_resources[i].ao
        /\ m_resources'[p].elements = m_resources[p].own
    BY <1>0, <1>2, CallProperties
  <2>2. \A i \in DOMAIN m_resources : OwnElements(i)' = OwnElements(i) /\ Parent(i)' = Parent(i)
    BY <2>1 DEF OwnElements, Parent
  <2>3. /\ stack' \in Seq(DOMAIN m_resources)
        /\ Len(stack') = n + 1
        /\ \A i \in 1..n : stack'[i] = stack[i]
        /\ stack'[n + 1] = p
    BY <1>0, <1>2, AppendProperties DEF ModelsInv, ResourcesType
  <2>4. \A i \in 1..Len(stack') : i \in 1..n \/ i = n + 1
    BY <1>r, <2>3
  <2>5. 1..n \subseteq 1..Len(stack') /\ n + 1 \in 1..Len(stack')
    BY <1>r, <2>3
  <2>6. \A i : InStack(i)' <=> InStack(i) \/ i = p
    BY <2>3, <2>4, <2>5 DEF InStack
  <2>7. ResourcesType'
    BY <2>1, <2>3 DEF ModelsInv, ResourcesType
  <2>8. LoadingInv'
    <3>1. \A i \in DOMAIN m_resources : m_resources[i].loading => i \in unvisited \/ InStack(i)
      BY <1>r DEF ModelsInv, LoadingInv
    <3>2. unvisited' \subseteq DOMAIN m_resources'
      BY <1>0, <2>1 DEF ModelsInv, LoadingInv
    <3> QED BY <1>0, <1>r, <1>2, <2>1, <2>6, <3>1, <3>2 DEF LoadingInv
  <2>9. FreshInv'
    BY <2>1, <2>2, <2>6 DEF ModelsInv, FreshInv
  <2>10. StackInv'
    <3>1. \A i \in 1..Len(stack') : m_resources'[stack'[i]].loading
      BY <1>0, <1>r, <2>1, <2>3, <2>4 DEF ModelsInv, StackInv
    <3>2. \A i \in 1..(Len(stack') - 1) : stack'[i + 1] = Parent(stack[i])'
      <4>1. ASSUME NEW i \in 1..n PROVE stack'[i + 1] = Parent(stack[i])
        <5>1. CASE i = n
          BY <5>1, <1>r, <2>3
        <5>2. CASE i # n
          <6>1. i \in 1..(n - 1) /\ i + 1 \in 1..n
            BY <5>2, <1>r
          <6> QED BY <6>1, <2>3 DEF ModelsInv, StackInv
        <5> QED BY <5>1, <5>2
      <4>2. \A i \in 1..n : Parent(stack[i])' = Parent(stack[i])
        BY <1>r, <2>1, <2>3 DEF Parent
      <4>3. 1..(Len(stack') - 1) = 1..n
        BY <1>r, <2>3
      <4> QED BY <4>1, <4>2, <4>3
    <3>3. CASE InStack(p)
      <4>1. PICK m \in 1..n : stack[m] = p
        BY <3>3 DEF InStack
      <4>2. CASE m = n
        <5>1. Parent(p) = p
          BY <4>1, <4>2, <1>r
        <5>4. Parent(Top)' = Parent(p)
          BY <1>0, <2>1, <2>3 DEF Parent, Top
        <5> QED BY <5>1, <5>4, <2>6, <3>1, <3>2 DEF StackInv
      <4>3. CASE m # n
        <5>1. m \in 1..(n - 1) /\ m + 1 \in 1..n
          BY <4>3, <1>r
        <5>2. Parent(p) = stack[m + 1]
          BY <4>1, <5>1 DEF ModelsInv, StackInv
        <5>3. InStack(Parent(p))
          BY <5>1, <5>2 DEF InStack
        <5> QED BY <5>3, <2>2, <2>3, <2>6, <1>0, <3>1, <3>2 DEF StackInv, Top
      <4> QED BY <4>2, <4>3
    <3>4. CASE ~InStack(p)
      <4>1. \A i \in 1..n : m_resources[stack[i]].elements = OwnElements(stack[i]) /\ stack[i] # p
        BY <3>4, <1>r DEF ModelsInv, StackInv, InStack
      <4>2. m_resources[p].own = OwnElements(p)
        BY <3>4, <1>0 DEF ModelsInv, FreshInv
      <4>3. ASSUME NEW i \in 1..Len(stack')
            PROVE  m_resources'[stack'[i]].elements = OwnElements(stack[i])'
        <5>1. stack'[i] \in DOMAIN m_resources
          BY <1>0, <1>r, <2>3, <2>4
        <5>2. OwnElements(stack[i])' = OwnElements(stack'[i])
          BY <5>1, <2>1 DEF OwnElements
        <5>3. CASE i \in 1..n
          BY <5>2, <5>3, <4>1, <1>r, <2>1, <2>3
        <5>4. CASE i = n + 1
          BY <5>2, <5>4, <4>2, <2>1, <2>3
        <5> QED BY <5>3, <5>4, <2>4
      <4> QED BY <4>3, <3>1, <3>2 DEF StackInv
    <3> QED BY <3>3, <3>4
  <2>11. Inherits' /\ NoCycleIsFinal'
    BY <1>0, <1>2, CallInv
  <2> QED BY <2>7, <2>8, <2>9, <2>10, <2>11 DEF ModelsInv
<1> QED BY <1>1, <1>2 DEF finalize_parent

\* finalize ends: its model is the only one in its place in the stack, and no
\* final model is its child.
LEMMA FinalizedInv ==
    ASSUME ModelsInv, NEW id \in Id, Finalizing(id),
           NEW elements \in SUBSET Id, NEW ao \in BOOLEAN, Finalized(id, elements, ao),
           Parent(id) \in DOMAIN m_resources => ~m_resources[Parent(id)].loading,
           m_resources[id].elements = OwnElements(id) =>
               elements = IF m_resources[id].file.elements = "some" THEN {id}
                          ELSE IF Parent(id) \in DOMAIN m_resources
                               THEN m_resources[Parent(id)].elements ELSE {},
           ao = IF Parent(id) = NoParent THEN m_resources[id].file.ao
                ELSE IF Parent(id) \in DOMAIN m_resources THEN m_resources[Parent(id)].ao ELSE TRUE
    PROVE  ModelsInv'
<1> DEFINE n == Len(stack)
           new == [m_resources[id] EXCEPT !.elements = elements, !.ao = ao, !.loading = FALSE]
<1>1. /\ stage = "finalizing" /\ n \in Nat \ {0} /\ n \in 1..n
      /\ stack[n] = id /\ Top = id
      /\ id \in DOMAIN m_resources /\ m_resources[id].loading
      /\ \A i \in 1..n : stack[i] \in DOMAIN m_resources
  BY Running
<1>2. m_resources \in [DOMAIN m_resources -> Model] /\ m_resources[id] \in Model
  BY <1>1 DEF ModelsInv, ResourcesType
<1>3. /\ new \in Model /\ new.file = m_resources[id].file /\ new.loading = FALSE
      /\ new.elements = elements /\ new.ao = ao
  BY <1>2 DEF Model
<1>4. /\ m_resources' = [m_resources EXCEPT ![id] = new]
      /\ stack' = Front(stack) /\ UNCHANGED <<stage, unvisited>>
  BY DEF Finalized, vfsVars
<1> HIDE DEF new
<1>5. /\ DOMAIN m_resources' = DOMAIN m_resources
      /\ m_resources' \in [DOMAIN m_resources' -> Model]
      /\ m_resources'[id] = new
      /\ \A i \in DOMAIN m_resources : i # id => m_resources'[i] = m_resources[i]
      /\ \A i \in DOMAIN m_resources : m_resources'[i].file = m_resources[i].file
  BY <1>1, <1>2, <1>3, <1>4
<1>6. \A i \in DOMAIN m_resources : Parent(i)' = Parent(i) /\ OwnElements(i)' = OwnElements(i)
  BY <1>5 DEF Parent, OwnElements
<1>7. /\ stack' \in Seq(DOMAIN m_resources)
      /\ Len(stack') = n - 1
      /\ \A i \in 1..(n - 1) : stack'[i] = stack[i]
  <2>1. stack \in Seq(DOMAIN m_resources)
    BY DEF ModelsInv, ResourcesType
  <2>2. stack' = SubSeq(stack, 1, n - 1)
    BY <1>4 DEF Front
  <2>3. \A i \in 1..(n - 1) : stack[i] \in DOMAIN m_resources
    BY <1>1
  <2> DEFINE front == SubSeq(stack, 1, n - 1)
  <2>4. n - 1 \in Int /\ 1 \in Int /\ (n - 1) - 1 + 1 = n - 1
        /\ (IF 1 <= n - 1 THEN (n - 1) - 1 + 1 ELSE 0) = n - 1
    <3>1. n \in Nat \ {0}
      BY <1>1
    <3> HIDE DEF n
    <3> QED BY <3>1
  <2>5. /\ front \in Seq(DOMAIN m_resources)
        /\ Len(front) = IF 1 <= n - 1 THEN (n - 1) - 1 + 1 ELSE 0
        /\ \A i \in 1..((n - 1) - 1 + 1) : front[i] = stack[1 + i - 1]
    BY <2>3, <2>4, SubSeqProperties
  <2>6. \A i \in 1..(n - 1) : 1 + i - 1 = i
    OBVIOUS
  <2> HIDE DEF front
  <2> QED BY <2>2, <2>4, <2>5, <2>6 DEF front
<1>8. ~InStack(Parent(id))
  <2> SUFFICES ASSUME NEW i \in 1..n, stack[i] = Parent(id) PROVE FALSE
    BY DEF InStack
  <2>1. stack[i] \in DOMAIN m_resources /\ m_resources[stack[i]].loading
    BY <1>1 DEF ModelsInv, StackInv
  <2> QED BY <2>1
<1>9. \A i \in 1..n : m_resources[stack[i]].elements = OwnElements(stack[i])
  BY <1>1, <1>8 DEF ModelsInv, StackInv
<1>10. \A i \in 1..(n - 1) : stack[i] # id
  <2> SUFFICES ASSUME NEW i \in 1..(n - 1), stack[i] = id PROVE FALSE
    OBVIOUS
  <2>1. stack[i + 1] = Parent(id) /\ i + 1 \in 1..n
    BY <1>1 DEF ModelsInv, StackInv
  <2> QED BY <2>1, <1>8 DEF InStack
<1>11. \A i \in DOMAIN m_resources : InStack(i) => i = id \/ InStack(i)'
  <2> SUFFICES ASSUME NEW i \in DOMAIN m_resources, InStack(i), i # id PROVE InStack(i)'
    OBVIOUS
  <2>1. PICK k \in 1..n : stack[k] = i
    BY DEF InStack
  <2>2. k \in 1..(n - 1)
    BY <1>1, <2>1
  <2>3. k \in 1..Len(stack') /\ stack'[k] = i
    BY <1>7, <2>1, <2>2
  <2> QED BY <2>3 DEF InStack
<1>12. ResourcesType'
  BY <1>5, <1>7 DEF ModelsInv, ResourcesType
<1>13. LoadingInv'
  BY <1>1, <1>3, <1>4, <1>5, <1>11 DEF ModelsInv, LoadingInv
<1>14. FreshInv'
  BY <1>3, <1>5, <1>6, <1>11 DEF ModelsInv, FreshInv
<1>15. StackInv'
  <2>1. \A i \in 1..Len(stack') :
           /\ stack'[i] = stack[i] /\ i \in 1..n
           /\ m_resources'[stack'[i]] = m_resources[stack[i]]
           /\ Parent(stack[i])' = Parent(stack[i])
           /\ OwnElements(stack[i])' = OwnElements(stack[i])
    <3> SUFFICES ASSUME NEW i \in 1..Len(stack')
                 PROVE  /\ stack'[i] = stack[i] /\ i \in 1..n
                        /\ m_resources'[stack[i]] = m_resources[stack[i]]
      BY DEF Parent, OwnElements
    <3>1. i \in 1..(n - 1) /\ i \in 1..n
      BY <1>1, <1>7
    <3>2. stack'[i] = stack[i] /\ stack[i] # id /\ stack[i] \in DOMAIN m_resources
      BY <3>1, <1>1, <1>7, <1>10
    <3> QED BY <3>1, <3>2, <1>5
  <2>2. \A i \in 1..Len(stack') : m_resources'[stack'[i]].loading
    BY <2>1 DEF ModelsInv, StackInv
  <2>3. \A i \in 1..Len(stack') : m_resources'[stack'[i]].elements = OwnElements(stack[i])'
    BY <2>1, <1>9
  <2>4. \A i \in 1..(Len(stack') - 1) : stack'[i + 1] = Parent(stack[i])'
    <3> SUFFICES ASSUME NEW i \in 1..(Len(stack') - 1) PROVE stack'[i + 1] = Parent(stack[i])'
      OBVIOUS
    <3>1. i \in 1..Len(stack') /\ i + 1 \in 1..Len(stack') /\ i \in 1..(n - 1)
      BY <1>1, <1>7
    <3>2. stack[i + 1] = Parent(stack[i])
      BY <3>1 DEF ModelsInv, StackInv
    <3> QED BY <3>1, <3>2, <2>1
  <2> QED BY <2>2, <2>3, <2>4 DEF StackInv
<1>16. \A i \in DOMAIN m_resources : i # id /\ ~m_resources'[i].loading =>
          /\ m_resources'[i] = m_resources[i] /\ InheritsAt(i)
          /\ Parent(i) \in DOMAIN m_resources =>
                Parent(i) # id /\ m_resources'[Parent(i)] = m_resources[Parent(i)]
  BY <1>1, <1>5, InheritsEverywhere DEF ModelsInv, InheritsAt
<1>17. Inherits'
  <2>1. ASSUME NEW i \in DOMAIN m_resources, ~m_resources'[i].loading PROVE InheritsAt(i)'
    <3>1. CASE i # id
      <4>1. m_resources'[i] = m_resources[i] /\ InheritsAt(i)
        BY <1>16, <2>1, <3>1
      <4>2. Parent(i) \in DOMAIN m_resources =>
               m_resources'[Parent(i)] = m_resources[Parent(i)]
        BY <1>16, <2>1, <3>1
      <4>3. Parent(i)' = Parent(i) /\ DOMAIN m_resources' = DOMAIN m_resources
        BY <1>5, <1>6
      <4> QED BY <4>1, <4>2, <4>3, InheritsAsBefore
    <3>2. CASE i = id
      <4>1. Parent(id) # id
        BY <1>1
      <4>2. Parent(id) \in DOMAIN m_resources => m_resources'[Parent(id)] = m_resources[Parent(id)]
        BY <4>1, <1>5
      <4>3. m_resources[id].elements = OwnElements(id)
        BY <1>1, <1>9
      <4>4. m_resources'[id].file = m_resources[id].file /\ Parent(id)' = Parent(id)
        BY <1>1, <1>5, <1>6
      <4> QED BY <3>2, <4>2, <4>3, <4>4, <1>3, <1>5 DEF InheritsAt
    <3> QED BY <3>1, <3>2
  <2>2. (\A i \in DOMAIN m_resources : ~m_resources[i].loading => InheritsAt(i))'
    BY <1>5, <2>1
  <2> QED BY <2>2 DEF Inherits, InheritsAt
<1>18. NoCycleIsFinal'
  <2> SUFFICES ASSUME NEW ids \in SUBSET DOMAIN m_resources, ids # {},
                      \A i \in ids : ~m_resources'[i].loading /\ Parent(i) \in ids
               PROVE  FALSE
    BY <1>5, <1>6 DEF NoCycleIsFinal
  <2> DEFINE others == ids \ {id}
  <2>1. \A i \in others : ~m_resources[i].loading /\ Parent(i) \in others
    BY <1>16
  <2>2. others # {}
    BY <1>1, <2>1
  <2> QED BY <2>1, <2>2 DEF ModelsInv, NoCycleIsFinal
<1> QED BY <1>12, <1>13, <1>14, <1>15, <1>17, <1>18 DEF ModelsInv

LEMMA NextModelsInv == ModelsInv /\ [Next]_vars => ModelsInv'
<1> SUFFICES ASSUME ModelsInv, [Next]_vars PROVE ModelsInv'
  OBVIOUS
<1>1. CASE Building
  BY <1>1, BuildingInv
<1>2. CASE skip_node
  BY <1>2, QuietInv DEF skip_node, vfsVars
<1>3. ASSUME NEW id \in Id, load_model(id) PROVE ModelsInv'
  BY <1>3, LoadInv
<1>4. CASE models_loaded
  BY <1>4, QuietInv DEF models_loaded
<1>5. ASSUME NEW id \in Id, visit(id) PROVE ModelsInv'
  BY <1>5, VisitInv
<1>6. ASSUME NEW id \in Id, finalize_parent(id) PROVE ModelsInv'
  BY <1>6, FinalizeParentInv
<1>7. ASSUME NEW id \in Id, Finalizing(id)
      PROVE  /\ m_resources \in [DOMAIN m_resources -> Model] /\ id \in DOMAIN m_resources
             /\ m_resources[id].elements \in SUBSET Id
             /\ m_resources[id].ao \in BOOLEAN /\ m_resources[id].ao = m_resources[id].file.ao
             /\ NoParent \notin DOMAIN m_resources
  <2>1. id \in DOMAIN m_resources /\ m_resources[id].loading
    BY <1>7, Running
  <2>2. m_resources \in [DOMAIN m_resources -> Model] /\ DOMAIN m_resources \subseteq Id
    BY DEF ModelsInv, ResourcesType
  <2>3. m_resources[id] \in Model
    BY <2>1, <2>2
  <2>4. m_resources[id].elements \in SUBSET Id /\ m_resources[id].ao \in BOOLEAN
    BY <2>3 DEF Model
  <2> QED BY <2>1, <2>2, <2>4, ModelsAssumption DEF ModelsInv, FreshInv
<1>8. ASSUME NEW id \in Id, finalize_root(id) PROVE ModelsInv'
  BY <1>7, <1>8, FinalizedInv DEF finalize_root, OwnElements
<1>9. ASSUME NEW id \in Id, inherit_sentinel(id) PROVE ModelsInv'
  BY <1>7, <1>9, FinalizedInv DEF inherit_sentinel, OwnElements
<1>10. ASSUME NEW id \in Id, inherit(id) PROVE ModelsInv'
  <2> DEFINE parent == m_resources[Parent(id)]
             own == m_resources[id].elements
  <2>1. Finalizing(id) /\ Parent(id) \in DOMAIN m_resources /\ ~parent.loading
        /\ Finalized(id, IF own = {} THEN parent.elements ELSE own, parent.ao)
    BY <1>10 DEF inherit
  <2>2. parent.elements \in SUBSET Id /\ parent.ao \in BOOLEAN
    <3>1. parent \in Model
      BY <1>7, <2>1
    <3> HIDE DEF parent
    <3> QED BY <3>1 DEF Model
  <2>3. (IF own = {} THEN parent.elements ELSE own) \in SUBSET Id
    BY <1>7, <2>1, <2>2
  <2>4. Parent(id) # NoParent
    BY <1>7, <2>1
  <2> QED BY <2>1, <2>2, <2>3, <2>4, FinalizedInv DEF OwnElements
<1>11. CASE models_final
  BY <1>11, QuietInv DEF models_final
<1>12. CASE model_unreadable
  BY <1>12, QuietInv DEF model_unreadable
<1>13. CASE UNCHANGED vars
  BY <1>13, QuietInv DEF vars, vfsVars
<1> QED BY <1>1, <1>2, <1>3, <1>4, <1>5, <1>6, <1>8, <1>9, <1>10, <1>11, <1>12, <1>13 DEF Next, finalize

LEMMA ModelsInvariant == Spec => []ModelsInv
BY InitModelsInv, NextModelsInv, PTL DEF Spec

-----------------------------------------------------------------------------
\* A final model has the elements of its file or, if that says nothing of elements,
\* its parent's, and its parent's ambient occlusion, in whatever order the models
\* are visited and even if other models are each other's ancestors
\* (model_object::finalize).  Nothing is said of the elements of a model that
\* defines an empty array of them.
THEOREM ModelsInherit == Spec => []Inherits
BY ModelsInvariant, PTL DEF ModelsInv

\* The main loop is reached with every model final, and not at all if models are
\* each other's ancestors (manager::load).
THEOREM ModelsRunFinal == Spec => []RunsFinal
<1>1. ModelsInv => RunsFinal
  BY DEF ModelsInv, LoadingInv, NoCycleIsFinal, RunsFinal, Cyclic
<1> QED BY <1>1, ModelsInvariant, PTL
-----------------------------------------------------------------------------
(***************************************************************************)
(* The tree: where the scan is, which storage each node came from, and     *)
(* what is still to come.                                                  *)
(***************************************************************************)

\* generate_path, of any nodes.
PathOf(entries, n) ==
    LET path[k \in Root..Len(entries)] ==
            IF k = Root THEN <<>> ELSE Append(path[entries[k].parent], entries[k].name)
    IN  path[n]

\* The nodes of a tree: each comes behind its parent.
IsTree(entries, Name) ==
    /\ entries \in Seq([name : Name, parent : Nat, storage : Nat])
    /\ \A n \in 1..Len(entries) : entries[n].parent < n

LEMMA PathOfEntries == \A n : generate_path(n) = PathOf(m_entries, n)
BY DEF generate_path, PathOf

LEMMA PathDef ==
    ASSUME NEW Name, NEW entries, IsTree(entries, Name)
    PROVE  /\ PathOf(entries, Root) = <<>>
           /\ \A n \in 1..Len(entries) :
                 PathOf(entries, n) = Append(PathOf(entries, entries[n].parent), entries[n].name)
           /\ \A n \in 0..Len(entries) : PathOf(entries, n) \in Seq(Name)
<1> DEFINE D == 0..Len(entries)
           V == Seq(Name)
           step == [p \in D \X [D -> V] |->
                       IF p[1] = 0 THEN <<>> ELSE Append(p[2][entries[p[1]].parent], entries[p[1]].name)]
           body(f) == [k \in Root..Len(entries) |->
                          IF k = Root THEN <<>> ELSE Append(f[entries[k].parent], entries[k].name)]
<1>0. /\ Len(entries) \in Nat /\ Root = 0
      /\ \A i \in D : i # 0 => entries[i].name \in Name /\ entries[i].parent \in D /\ entries[i].parent < i
  <2>1. entries \in Seq([name : Name, parent : Nat, storage : Nat])  BY DEF IsTree
  <2>2. ASSUME NEW i \in D, i # 0 PROVE entries[i].name \in Name /\ entries[i].parent \in D /\ entries[i].parent < i
    <3>1. i \in 1..Len(entries)  BY <2>1, <2>2
    <3>2. entries[i] \in [name : Name, parent : Nat, storage : Nat]  BY <2>1, <3>1, ElementOfSeq
    <3>3. entries[i].parent < i /\ entries[i].parent \in Nat  BY <3>1, <3>2 DEF IsTree
    <3> QED  BY <3>1, <3>2, <3>3, <2>1
  <2> QED  BY <2>1, <2>2 DEF Root
<1>1. \A i \in D, f \in [D -> V] :
          step[<<i, f>>] = IF i = 0 THEN <<>> ELSE Append(f[entries[i].parent], entries[i].name)
  OBVIOUS
<1>2. ASSUME NEW i \in D, NEW f \in [D -> V]
      PROVE  (IF i = 0 THEN <<>> ELSE Append(f[entries[i].parent], entries[i].name)) \in V
  <2>1. CASE i = 0  BY <2>1
  <2>2. CASE i # 0
    <3>1. f[entries[i].parent] \in V /\ entries[i].name \in Name
      <4> HIDE DEF D, V
      <4> QED  BY <1>0, <2>2
    <3>2. Append(f[entries[i].parent], entries[i].name) \in V  BY <3>1, AppendProperties
    <3> QED  BY <2>2, <3>2
  <2> QED  BY <2>1, <2>2
<1>3. Recursion(step, D, V)
  <2>1. V # {} /\ D \in SUBSET Nat
    <3>1. <<>> \in V  OBVIOUS
    <3>2. \A i \in D : i \in Nat  OBVIOUS
    <3> HIDE DEF V, D
    <3> QED  BY <3>1, <3>2
  <2>2. step \in [D \X [D -> V] -> V]
    <3> HIDE DEF D, V
    <3> QED  BY <1>2
  <2>3. ASSUME NEW i \in D, NEW f \in [D -> V], NEW g \in [D -> V],
               \A j \in D : j < i => f[j] = g[j]
        PROVE  step[<<i, f>>] = step[<<i, g>>]
    <3>1. CASE i = 0  BY <1>1, <3>1
    <3>2. CASE i # 0
      <4>1. f[entries[i].parent] = g[entries[i].parent]  BY <1>0, <2>3, <3>2
      <4>2. /\ step[<<i, f>>] = Append(f[entries[i].parent], entries[i].name)
            /\ step[<<i, g>>] = Append(g[entries[i].parent], entries[i].name)
        <5> HIDE DEF step, D, V
        <5> QED  BY <1>1, <3>2, Zenon
      <4> QED  BY <4>1, <4>2, Zenon
    <3> QED  BY <3>1, <3>2
  <2> HIDE DEF step, D, V
  <2> QED  BY <2>1, <2>2, <2>3, Zenon DEF Recursion
<1>4. PICK h : Solves(h, step, D, V)
  <2> HIDE DEF step, D, V
  <2> QED  BY <1>3, RecursionExists, Zenon
<1>5. h = body(h)
  <2>1. h \in [D -> V] /\ \A i \in D : h[i] = step[<<i, h>>]  BY <1>4 DEF Solves
  <2>2. \A i \in D : h[i] = IF i = 0 THEN <<>> ELSE Append(h[entries[i].parent], entries[i].name)
    <3> HIDE DEF step, V
    <3> QED  BY <1>1, <2>1
  <2>3. h = [i \in D |-> h[i]]  BY <2>1
  <2>4. h = [i \in D |-> IF i = 0 THEN <<>> ELSE Append(h[entries[i].parent], entries[i].name)]
    <3> HIDE DEF step, D, V
    <3> QED  BY <2>2, <2>3
  <2> QED  BY <2>4, <1>0
<1> DEFINE path == CHOOSE f : f = body(f)
<1>6. path = body(path)
  <2> HIDE DEF body
  <2> QED  BY <1>5
<1>7. \A n : PathOf(entries, n) = path[n]  BY DEF PathOf
<1> HIDE DEF path
<1>8. \A i \in D : path[i] = IF i = 0 THEN <<>> ELSE Append(path[entries[i].parent], entries[i].name)
  BY <1>0, <1>6
<1>9. \A i \in D : path[i] \in V
  <2> DEFINE S == {i \in Nat : i \in D => path[i] \in V}
  <2>1. ASSUME NEW i \in Nat, \A j \in Nat : j < i => j \in S PROVE i \in S
    <3>1. CASE i \notin D  BY <3>1
    <3>2. CASE i = 0
      <4>1. path[0] = <<>>  BY <1>0, <1>8
      <4>2. path[0] \in V  BY <4>1
      <4> HIDE DEF V
      <4> QED  BY <3>2, <4>2
    <3>3. CASE i \in D /\ i # 0
      <4>1. entries[i].parent \in D /\ entries[i].parent < i /\ entries[i].parent \in Nat /\ entries[i].name \in Name
        BY <1>0, <3>3
      <4>2. path[entries[i].parent] \in V  BY <2>1, <4>1
      <4>3. path[i] = Append(path[entries[i].parent], entries[i].name)  BY <1>8, <3>3
      <4>4. path[i] \in V  BY <4>1, <4>2, <4>3, AppendProperties
      <4> QED  BY <4>4
    <3> QED  BY <3>1, <3>2, <3>3
  <2>2. Nat \subseteq S
    <3> HIDE DEF S
    <3> QED  BY <2>1, CompleteInduction
  <2> QED  BY <1>0, <2>2
<1>10. \A n \in 1..Len(entries) : n \in D /\ n # 0  BY <1>0
<1>11. 0 \in D  BY <1>0
<1> HIDE DEF D, V, body
<1> QED  BY <1>0, <1>7, <1>8, <1>9, <1>10, <1>11 DEF D, V

\* A node that is added leaves the paths of the others.
LEMMA PathAppend ==
    ASSUME NEW Name, NEW entries, NEW e, IsTree(entries, Name), IsTree(Append(entries, e), Name)
    PROVE  \A n \in 0..Len(entries) : PathOf(Append(entries, e), n) = PathOf(entries, n)
<1> DEFINE more == Append(entries, e)
           S == {i \in Nat : i \in 0..Len(entries) => PathOf(more, i) = PathOf(entries, i)}
<1>1. /\ Len(entries) \in Nat /\ Len(more) = Len(entries) + 1
      /\ \A i \in 1..Len(entries) : more[i] = entries[i] /\ i \in 1..Len(more)
      /\ \A i \in 1..Len(entries) : entries[i].parent \in Nat /\ entries[i].parent < i
  <2>1. entries \in Seq([name : Name, parent : Nat, storage : Nat])  BY DEF IsTree
  <2>2. Len(entries) \in Nat /\ Len(more) = Len(entries) + 1  BY <2>1
  <2>3. \A i \in 1..Len(entries) : more[i] = entries[i]  BY <2>1
  <2>4. \A i \in 1..Len(entries) : i \in 1..(Len(entries) + 1)  BY <2>2
  <2>5. \A i \in 1..Len(entries) : entries[i] \in [name : Name, parent : Nat, storage : Nat]
    BY <2>1, ElementOfSeq
  <2> HIDE DEF more
  <2> QED  BY <2>2, <2>3, <2>4, <2>5 DEF IsTree
<1> HIDE DEF more
<1>2. ASSUME NEW i \in Nat, \A j \in Nat : j < i => j \in S PROVE i \in S
  <2>1. CASE i \notin 0..Len(entries)  BY <2>1
  <2>2. CASE i = 0
    <3>1. PathOf(more, 0) = <<>> /\ PathOf(entries, 0) = <<>>  BY PathDef DEF more, Root
    <3> QED  BY <2>2, <3>1
  <2>3. CASE i \in 1..Len(entries)
    <3>1. entries[i].parent \in Nat /\ entries[i].parent < i /\ entries[i].parent \in 0..Len(entries) /\ more[i] = entries[i]
      BY <1>1, <2>3
    <3>2. PathOf(more, entries[i].parent) = PathOf(entries, entries[i].parent)  BY <1>2, <3>1
    <3>3. PathOf(entries, i) = Append(PathOf(entries, entries[i].parent), entries[i].name)  BY <2>3, PathDef
    <3>4. PathOf(more, i) = Append(PathOf(more, more[i].parent), more[i].name)  BY <1>1, <2>3, PathDef DEF more
    <3> QED  BY <3>1, <3>2, <3>3, <3>4
  <2> QED  BY <2>1, <2>2, <2>3
<1>3. Nat \subseteq S
  <2> HIDE DEF S
  <2> QED  BY <1>2, CompleteInduction
<1> QED  BY <1>1, <1>3 DEF more
-----------------------------------------------------------------------------
\* All names in the storages.
Names == UNION {Range(path) : path \in UNION {DOMAIN m_storages[i] : i \in DOMAIN m_storages}}

Path(n) == PathOf(m_entries, n)

\* The storages are directory trees.
StoragesInv ==
    /\ Len(m_storages) \in Nat /\ DOMAIN m_storages = 1..Len(m_storages)
    /\ \A i \in 1..Len(m_storages) : \A path \in DOMAIN m_storages[i] :
          /\ path \in Seq(Names) /\ path # <<>>
          /\ Len(path) > 1 => Front(path) \in DOMAIN m_storages[i] /\ m_storages[i][Front(path)] = Directory

\* The iterator and build_tree are in the same directory.
ScanInv ==
    /\ IsTree(m_entries, Names)
    /\ current \in 0..Len(m_entries)
    /\ s \in 1..(Len(m_storages) + 1)
    /\ m_iterators \in Seq(SUBSET Names)
    /\ m_path \in Seq(Names)
    /\ m_iterators # <<>> =>
          s <= Len(m_storages) /\ m_path = Path(current) /\ Len(m_iterators) = Len(m_path) + 1
    /\ stage \notin {"building", "io_error"} => s = Len(m_storages) + 1

LEMMA StoragesInit == VfsInit => StoragesInv
<1> SUFFICES ASSUME VfsInit PROVE StoragesInv  OBVIOUS
<1>1. m_storages \in Seq(Range(m_storages))  BY VfsAssumption DEF VfsInit
<1>2. Len(m_storages) \in Nat /\ DOMAIN m_storages = 1..Len(m_storages)  BY <1>1
<1>3. ASSUME NEW i \in 1..Len(m_storages), NEW path \in DOMAIN m_storages[i]
      PROVE  /\ path \in Seq(Names) /\ path # <<>>
             /\ Len(path) > 1 => Front(path) \in DOMAIN m_storages[i] /\ m_storages[i][Front(path)] = Directory
  <2>1. /\ path \in Seq(Range(path)) /\ path # <<>>
        /\ Len(path) > 1 => Front(path) \in DOMAIN m_storages[i] /\ m_storages[i][Front(path)] = Directory
    BY <1>2, VfsAssumption DEF VfsInit
  <2>2. Range(path) \subseteq Names  BY <1>2 DEF Names
  <2>3. path \in Seq(Names)  BY <2>1, <2>2, SeqMonotonic
  <2> QED  BY <2>1, <2>3
<1> QED  BY <1>2, <1>3 DEF StoragesInv

LEMMA ScanInit == VfsInit => ScanInv
<1> SUFFICES ASSUME VfsInit PROVE ScanInv  OBVIOUS
<1>1. StoragesInv  BY StoragesInit
<1>2. m_entries = <<>> /\ current = 0 /\ s = 1 /\ m_iterators = <<>> /\ m_path = <<>> /\ stage = "building"
  BY DEF VfsInit, Root
<1>3. IsTree(m_entries, Names)  BY <1>2 DEF IsTree
<1>4. current \in 0..Len(m_entries)  BY <1>2
<1>5. s \in 1..(Len(m_storages) + 1)  BY <1>1, <1>2 DEF StoragesInv
<1>6. m_iterators \in Seq(SUBSET Names) /\ m_path \in Seq(Names)  BY <1>2
<1> QED  BY <1>2, <1>3, <1>4, <1>5, <1>6 DEF ScanInv

\* What opendir finds are names.
LEMMA NamesInNames ==
    ASSUME StoragesInv, NEW i \in 1..Len(m_storages), NEW path
    PROVE  NamesIn(m_storages[i], path) \subseteq Names
<1> SUFFICES ASSUME NEW p \in DOMAIN m_storages[i] PROVE Last(p) \in Names
  BY DEF NamesIn
<1>1. p \in Seq(Names) /\ p # <<>>  BY DEF StoragesInv
<1>2. Len(p) \in 1..Len(p)  BY <1>1
<1> QED  BY <1>1, <1>2, ElementOfSeq DEF Last

\* A step that puts an entry into the tree.
LEMMA EntryTree ==
    ASSUME StoragesInv, ScanInv, NEW name, NEW isDirectory \in BOOLEAN, Entry(name, isDirectory)
    PROVE  /\ Len(m_entries) \in Nat /\ Len(m_entries') = Len(m_entries) + 1
           /\ IsTree(m_entries', Names)
           /\ \A n \in 1..Len(m_entries) : m_entries'[n] = m_entries[n]
           /\ \A n \in 0..Len(m_entries) : Path(n)' = Path(n)
           /\ m_entries'[Len(m_entries) + 1] =
                 [name |-> name, parent |-> current, storage |-> IF isDirectory THEN 0 ELSE s]
           /\ PathOf(m_entries', Len(m_entries) + 1) = Append(m_path, name)
           /\ name \in Names /\ Append(m_path, name) \in Seq(Names)
<1> DEFINE e == [name |-> name, parent |-> current, storage |-> IF isDirectory THEN 0 ELSE s]
           size == Len(m_entries)
<1>1. m_entries' = Append(m_entries, e) /\ m_iterators # <<>> /\ name \in Last(m_iterators)
  BY DEF Entry
<1>2. m_entries \in Seq([name : Names, parent : Nat, storage : Nat]) /\ size \in Nat
  BY DEF ScanInv, IsTree
<1>3. name \in Names
  <2>1. m_iterators \in Seq(SUBSET Names) /\ Len(m_iterators) \in 1..Len(m_iterators)
    BY <1>1 DEF ScanInv
  <2>2. Last(m_iterators) \in SUBSET Names  BY <2>1, ElementOfSeq DEF Last
  <2> QED  BY <1>1, <2>2
<1>4. current \in 0..size /\ s \in Nat /\ m_path = Path(current)
  <2>1. current \in 0..size /\ s \in 1..(Len(m_storages) + 1) /\ m_path = Path(current)  BY <1>1 DEF ScanInv
  <2>2. Len(m_storages) \in Nat  BY DEF StoragesInv
  <2> QED  BY <2>1, <2>2
<1>5. e \in [name : Names, parent : Nat, storage : Nat]  BY <1>2, <1>3, <1>4
<1> HIDE DEF e
<1>6. PICK more : more = Append(m_entries, e)  OBVIOUS
<1>7. /\ more \in Seq([name : Names, parent : Nat, storage : Nat]) /\ Len(more) = size + 1
      /\ \A n \in 1..size : more[n] = m_entries[n]
      /\ more[size + 1] = e
  BY <1>2, <1>5, <1>6, AppendProperties
<1>8. IsTree(more, Names)
  <2>1. ASSUME NEW n \in 1..Len(more) PROVE more[n].parent < n
    <3>1. CASE n \in 1..size
      <4>1. m_entries[n].parent < n  BY <3>1 DEF ScanInv, IsTree
      <4> QED  BY <1>7, <3>1, <4>1
    <3>2. CASE n = size + 1
      <4>1. more[n].parent = current  BY <1>7, <3>2 DEF e
      <4>2. current < size + 1  BY <1>2, <1>4
      <4> QED  BY <3>2, <4>1, <4>2
    <3> QED  BY <1>2, <1>7, <3>1, <3>2
  <2> QED  BY <1>7, <2>1 DEF IsTree
<1>9. \A n \in 0..size : PathOf(more, n) = PathOf(m_entries, n)
  <2>1. IsTree(m_entries, Names)  BY DEF ScanInv
  <2> QED  BY <1>6, <1>8, <2>1, PathAppend
<1>10. PathOf(more, size + 1) = Append(m_path, name)
  <2>1. size + 1 \in 1..Len(more)  BY <1>2, <1>7
  <2>2. PathOf(more, size + 1) = Append(PathOf(more, more[size + 1].parent), more[size + 1].name)
    BY <1>8, <2>1, PathDef
  <2>3. more[size + 1].parent = current /\ more[size + 1].name = name  BY <1>7 DEF e
  <2>4. PathOf(more, current) = m_path  BY <1>4, <1>9 DEF Path
  <2> QED  BY <2>2, <2>3, <2>4
<1>11. Append(m_path, name) \in Seq(Names)
  <2>1. m_path \in Seq(Names)  BY DEF ScanInv
  <2> QED  BY <1>3, <2>1, AppendProperties
<1>12. m_entries' = more  BY <1>1, <1>6
<1>13. \A n : Path(n)' = PathOf(more, n)  BY <1>12 DEF Path
<1>14. \A n \in 0..size : Path(n)' = Path(n)  BY <1>9, <1>13 DEF Path
<1>15. PathOf(m_entries', size + 1) = Append(m_path, name)  BY <1>10, <1>12
<1>16. IsTree(m_entries', Names)  BY <1>8, <1>12
<1> QED  BY <1>2, <1>3, <1>7, <1>11, <1>12, <1>14, <1>15, <1>16 DEF e

\* The storages do not change.
LEMMA StoragesStep == StoragesInv /\ m_storages' = m_storages => StoragesInv' /\ Names' = Names
BY DEF StoragesInv, Names

\* Steps that leave the tree and the scan alone.
LEMMA ScanQuiet ==
    ASSUME StoragesInv, ScanInv, UNCHANGED <<m_storages, s, m_iterators, m_path, current, m_entries>>,
           stage' \notin {"building", "io_error"} => s = Len(m_storages) + 1
    PROVE  ScanInv'
<1>1. Names' = Names /\ \A n : Path(n)' = Path(n)  BY StoragesStep DEF Path
<1> QED  BY <1>1 DEF ScanInv

\* The last of a sequence, and what is before it.
LEMMA FrontAppended ==
    ASSUME NEW S, NEW q \in Seq(S), NEW e \in S
    PROVE  Front(Append(q, e)) = q /\ Last(Append(q, e)) = e
<1> DEFINE p == Append(q, e)
<1>1. p \in Seq(S) /\ Len(q) \in Nat /\ Len(p) = Len(q) + 1 /\ p[Len(q) + 1] = e /\ \A i \in 1..Len(q) : p[i] = q[i]
  BY AppendProperties
<1> HIDE DEF p
<1>2. \A i \in 1..Len(q) : p[i] \in S  BY <1>1, ElementOfSeq
<1>3. /\ SubSeq(p, 1, Len(q)) \in Seq(S) /\ Len(SubSeq(p, 1, Len(q))) = Len(q)
      /\ \A i \in 1..Len(q) : SubSeq(p, 1, Len(q))[i] = p[i]
  BY <1>1, <1>2, SubSeqProperties
<1>4. SubSeq(p, 1, Len(q)) = q  BY <1>1, <1>3, SeqEqual
<1>5. Len(p) - 1 = Len(q)  BY <1>1
<1> QED  BY <1>1, <1>4, <1>5 DEF Front, Last, p

LEMMA NamesLeftType ==
    ASSUME ScanInv, m_iterators # <<>>, NEW name
    PROVE  /\ NamesLeft(name) \in Seq(SUBSET Names) /\ Len(NamesLeft(name)) = Len(m_iterators)
           /\ Len(m_iterators) \in 1..Len(m_iterators)
           /\ NamesLeft(name)[Len(m_iterators)] = m_iterators[Len(m_iterators)] \ {name}
           /\ \A i \in 1..Len(m_iterators) : i # Len(m_iterators) => NamesLeft(name)[i] = m_iterators[i]
<1>1. m_iterators \in Seq(SUBSET Names) /\ Len(m_iterators) \in 1..Len(m_iterators)  BY DEF ScanInv
<1>2. m_iterators[Len(m_iterators)] \ {name} \in SUBSET Names  BY <1>1, ElementOfSeq
<1>3. NamesLeft(name) = [m_iterators EXCEPT ![Len(m_iterators)] = m_iterators[Len(m_iterators)] \ {name}]
  BY DEF NamesLeft
<1> QED  BY <1>1, <1>2, <1>3, ExceptSeq

LEMMA ScanBuild == StoragesInv /\ ScanInv /\ build_tree => ScanInv'
<1> SUFFICES ASSUME StoragesInv, ScanInv, build_tree PROVE ScanInv'  OBVIOUS
<1>1. m_storages' = m_storages
  BY DEF build_tree, create_iterator, next_end, storage_fails, tree_built, next_file, next_directory, Entry
<1>2. Names' = Names /\ StoragesInv'  BY <1>1, StoragesStep
<1>3. /\ m_entries \in Seq([name : Names, parent : Nat, storage : Nat]) /\ Len(m_entries) \in Nat
      /\ Len(m_storages) \in Nat
  BY DEF ScanInv, IsTree, StoragesInv
<1>4. CASE create_iterator
  <2>1. /\ stage' = "building" /\ s <= Len(m_storages) /\ m_iterators' = <<NamesIn(m_storages[s], <<>>)>>
        /\ m_path' = <<>> /\ current' = 0 /\ UNCHANGED <<s, m_entries>>
    BY <1>4 DEF create_iterator, Root
  <2>2. s \in 1..Len(m_storages)  BY <1>3, <2>1 DEF ScanInv
  <2>3. NamesIn(m_storages[s], <<>>) \in SUBSET Names  BY <2>2, NamesInNames
  <2>4. m_iterators' \in Seq(SUBSET Names) /\ Len(m_iterators') = 1  BY <2>1, <2>3
  <2>5. PathOf(m_entries, 0) = <<>>  BY PathDef DEF ScanInv, Root
  <2>6. m_path' = Path(current)' /\ Len(m_path') = 0 /\ m_path' \in Seq(Names)  BY <2>1, <2>5 DEF Path
  <2>7. current' \in 0..Len(m_entries)  BY <1>3, <2>1
  <2> QED  BY <1>1, <1>2, <2>1, <2>4, <2>6, <2>7 DEF ScanInv
<1>5. CASE next_end
  <2>1. /\ stage = "building" /\ stage' = "building" /\ m_iterators # <<>> /\ m_iterators' = Front(m_iterators)
        /\ m_path' = IF m_iterators' = <<>> THEN m_path ELSE Front(m_path)
        /\ m_entries' = m_entries
        /\ IF current = 0 THEN s' = s + 1 /\ current' = current
           ELSE current' = m_entries[current].parent /\ s' = s
    BY <1>5 DEF next_end, Root
  <2>2. /\ m_iterators \in Seq(SUBSET Names) /\ m_path \in Seq(Names) /\ m_path = Path(current)
        /\ Len(m_iterators) = Len(m_path) + 1 /\ s \in 1..Len(m_storages) /\ current \in 0..Len(m_entries)
    BY <1>3, <2>1 DEF ScanInv
  <2>3. m_iterators' \in Seq(SUBSET Names) /\ Len(m_iterators') = Len(m_path)
    <3> DEFINE n == Len(m_iterators)
    <3>1. n \in Nat \ {0} /\ n - 1 = Len(m_path)  BY <2>1, <2>2
    <3>2. \A i \in 1..(n - 1) : m_iterators[i] \in SUBSET Names  BY <2>2, ElementOfSeq
    <3>3. SubSeq(m_iterators, 1, n - 1) \in Seq(SUBSET Names) /\ Len(SubSeq(m_iterators, 1, n - 1)) = n - 1
      <4> HIDE DEF n
      <4> QED  BY <3>1, <3>2, SubSeqProperties
    <3> QED  BY <2>1, <3>1, <3>3 DEF Front
  <2>4. IsTree(m_entries, Names)  BY DEF ScanInv
  <2>5. CASE current = 0
    <3>1. m_path = <<>>  BY <2>2, <2>4, <2>5, PathDef DEF Path, Root
    <3>2. m_iterators' = <<>>  BY <2>3, <3>1
    <3>3. s' \in 1..(Len(m_storages) + 1)  BY <1>3, <2>1, <2>2, <2>5
    <3>4. current' \in 0..Len(m_entries)  BY <2>1, <2>2, <2>5
    <3> QED  BY <1>1, <1>2, <2>1, <2>2, <2>3, <2>4, <3>2, <3>3, <3>4 DEF ScanInv
  <2>6. CASE current # 0
    <3>1. current \in 1..Len(m_entries)  BY <1>3, <2>2, <2>6
    <3>2. m_entries[current].parent < current /\ m_entries[current].parent \in Nat /\ m_entries[current].name \in Names
      <4>1. m_entries[current] \in [name : Names, parent : Nat, storage : Nat]  BY <1>3, <3>1, ElementOfSeq
      <4> QED  BY <2>4, <3>1, <4>1 DEF IsTree
    <3>3. current' \in 0..Len(m_entries)  BY <1>3, <2>1, <2>6, <3>1, <3>2
    <3>4. m_path = Append(Path(current'), m_entries[current].name) /\ Path(current') \in Seq(Names)
      BY <2>1, <2>2, <2>4, <2>6, <3>1, <3>3, PathDef DEF Path
    <3>5. PICK above : above = Path(current')  OBVIOUS
    <3>6. Len(m_path) = Len(above) + 1 /\ Len(above) \in Nat /\ Front(m_path) = above
      <4>1. above \in Seq(Names) /\ m_path = Append(above, m_entries[current].name)  BY <3>4, <3>5
      <4>2. Len(m_path) = Len(above) + 1 /\ Len(above) \in Nat  BY <4>1
      <4>3. Front(Append(above, m_entries[current].name)) = above  BY <3>2, <4>1, FrontAppended
      <4> QED  BY <4>1, <4>2, <4>3
    <3>7. m_iterators' # <<>>  BY <2>3, <3>6
    <3>8. m_path' = above  BY <2>1, <3>6, <3>7
    <3>9. Path(current)' = above  BY <2>1, <3>5 DEF Path
    <3> QED  BY <1>1, <1>2, <2>1, <2>2, <2>3, <2>4, <2>6, <3>3, <3>4, <3>5, <3>6, <3>8, <3>9 DEF ScanInv
  <2> QED  BY <2>5, <2>6
<1>6. CASE storage_fails
  BY <1>6, ScanQuiet DEF storage_fails
<1>7. CASE tree_built
  <2>1. s > Len(m_storages)  BY <1>7, Zenon DEF tree_built
  <2>2. s \in 1..(Len(m_storages) + 1)  BY Zenon DEF ScanInv
  <2>3. s = Len(m_storages) + 1  BY <1>3, <2>1, <2>2
  <2> QED  BY <1>7, <2>3, ScanQuiet DEF tree_built
<1>8. ASSUME NEW name \in UNION Range(m_iterators), next_file(name)
      PROVE  ScanInv'
  <2>1. Entry(name, FALSE) /\ m_iterators' = NamesLeft(name) /\ UNCHANGED <<m_path, current>>
    BY <1>8 DEF next_file
  <2>2. stage = "building" /\ stage' = "building" /\ m_iterators # <<>> /\ UNCHANGED s  BY <2>1 DEF Entry
  <2>3. /\ Len(m_entries') = Len(m_entries) + 1 /\ IsTree(m_entries', Names)
        /\ \A n \in 0..Len(m_entries) : Path(n)' = Path(n)
    BY <2>1, EntryTree
  <2>4. m_iterators' \in Seq(SUBSET Names) /\ Len(m_iterators') = Len(m_iterators)  BY <2>1, <2>2, NamesLeftType
  <2>5. current \in 0..Len(m_entries) /\ m_path = Path(current)  BY <2>2 DEF ScanInv
  <2>6. current' \in 0..Len(m_entries')  BY <1>3, <2>1, <2>3, <2>5
  <2>7. PICK here : here = current  OBVIOUS
  <2>8. Path(current)' = m_path
    <3>1. Path(here)' = Path(here)  BY <2>3, <2>5, <2>7
    <3> QED  BY <2>1, <2>5, <2>7, <3>1 DEF Path
  <2> QED  BY <1>1, <1>2, <2>1, <2>2, <2>3, <2>4, <2>6, <2>8 DEF ScanInv
<1>9. ASSUME NEW name \in UNION Range(m_iterators), next_directory(name)
      PROVE  ScanInv'
  <2>1. /\ Entry(name, TRUE) /\ m_path' = Append(m_path, name)
        /\ m_iterators' = Append(NamesLeft(name), NamesIn(m_storages[s], m_path')) /\ current' = Len(m_entries')
    BY <1>9 DEF next_directory
  <2>2. stage = "building" /\ stage' = "building" /\ m_iterators # <<>> /\ UNCHANGED s  BY <2>1 DEF Entry
  <2>3. /\ Len(m_entries') = Len(m_entries) + 1 /\ IsTree(m_entries', Names)
        /\ PathOf(m_entries', Len(m_entries) + 1) = Append(m_path, name)
        /\ Append(m_path, name) \in Seq(Names) /\ name \in Names
    BY <2>1, EntryTree
  <2>4. NamesLeft(name) \in Seq(SUBSET Names) /\ Len(NamesLeft(name)) = Len(m_iterators)  BY <2>2, NamesLeftType
  <2>5. s \in 1..Len(m_storages) /\ Len(m_iterators) = Len(m_path) + 1 /\ m_path \in Seq(Names)
    BY <1>3, <2>2 DEF ScanInv
  <2>6. NamesIn(m_storages[s], m_path') \in SUBSET Names  BY <2>5, NamesInNames
  <2>7. m_iterators' \in Seq(SUBSET Names) /\ Len(m_iterators') = Len(m_iterators) + 1
    BY <2>1, <2>4, <2>6, AppendProperties
  <2>8. Len(m_path') = Len(m_path) + 1 /\ m_path' \in Seq(Names)  BY <2>1, <2>3, <2>5, AppendProperties
  <2>9. current' = Len(m_entries) + 1 /\ current' \in 0..Len(m_entries')  BY <1>3, <2>1, <2>3
  <2>10. Path(current)' = m_path'  BY <2>1, <2>3, <2>9 DEF Path
  <2> QED  BY <1>1, <1>2, <2>2, <2>3, <2>5, <2>7, <2>8, <2>9, <2>10 DEF ScanInv
<1> QED  BY <1>4, <1>5, <1>6, <1>7, <1>8, <1>9 DEF build_tree

\* Behind the building of the tree nothing changes it.
LEMMA OtherSteps ==
    ASSUME ScanInv, [Next]_vars, ~Building
    PROVE  /\ UNCHANGED <<m_storages, s, m_iterators, m_path, current, m_entries>>
           /\ stage' \notin {"building", "io_error"} => s = Len(m_storages) + 1
<1>1. CASE UNCHANGED vars
  BY <1>1 DEF vars, vfsVars, ScanInv
<1>2. CASE skip_node \/ (\E id \in Id : load_model(id)) \/ model_unreadable \/ models_loaded
  BY <1>2 DEF skip_node, load_model, model_unreadable, models_loaded, TreeUnchanged, vfsVars, ScanInv
<1>3. CASE (\E id \in Id : finalize(id)) \/ models_final
  <2>1. stage = "finalizing"
    BY <1>3 DEF finalize, visit, finalize_parent, finalize_root, inherit, inherit_sentinel, Finalizing, models_final
  <2>2. UNCHANGED <<m_storages, s, m_iterators, m_path, current, m_entries>>
    BY <1>3 DEF finalize, visit, finalize_parent, finalize_root, inherit, inherit_sentinel, Finalized,
                models_final, TreeUnchanged, vfsVars
  <2> QED  BY <2>1, <2>2 DEF ScanInv
<1> QED  BY <1>1, <1>2, <1>3 DEF Next

LEMMA ScanStep == StoragesInv /\ ScanInv /\ [Next]_vars => StoragesInv' /\ ScanInv'
<1> SUFFICES ASSUME StoragesInv, ScanInv, [Next]_vars PROVE StoragesInv' /\ ScanInv'  OBVIOUS
<1>1. CASE Building
  <2>1. build_tree  BY <1>1 DEF Building
  <2>2. m_storages' = m_storages
    BY <2>1 DEF build_tree, create_iterator, next_end, storage_fails, tree_built, next_file, next_directory, Entry
  <2> QED  BY <2>1, <2>2, ScanBuild, StoragesStep
<1>2. CASE ~Building
  BY <1>2, OtherSteps, ScanQuiet, StoragesStep
<1> QED  BY <1>1, <1>2

\* However deep the directories and in whatever order their entries are read, the
\* iterator's path is that of the node build_tree is at, and it has as many
\* directories open (host_storage_iterator::next and vfs::build_tree).
THEOREM ModelsScanAgrees == Spec => []ScanAgrees
<1>1. Init => StoragesInv /\ ScanInv  BY StoragesInit, ScanInit DEF Init
<1>2. StoragesInv /\ ScanInv /\ [Next]_vars => (StoragesInv /\ ScanInv)'  BY ScanStep
<1>3. ScanInv => ScanAgrees  BY PathOfEntries DEF ScanInv, ScanAgrees, Path
<1> QED  BY <1>1, <1>2, <1>3, PTL DEF Spec
-----------------------------------------------------------------------------
\* The storage each node came from: the paths of the nodes are what is there.
Origins(o) ==
    /\ o \in [1..Len(m_entries) -> 1..Len(m_storages)]
    /\ \A n \in 1..Len(m_entries) :
          /\ Path(n) \in DOMAIN m_storages[o[n]]
          /\ m_entries[n].storage = IF m_storages[o[n]][Path(n)] = Directory THEN 0 ELSE o[n]
          /\ m_entries[n].parent # 0 => o[m_entries[n].parent] = o[n]
    /\ \A n, k \in 1..Len(m_entries) : n <= k => o[n] <= o[k]
    /\ \A n, k \in 1..Len(m_entries) : o[n] = o[k] /\ Path(n) = Path(k) => n = k

\* The nodes of the storages read so far, and of the one being read.
Reached(o) ==
    /\ \A n \in 1..Len(m_entries) : o[n] <= s /\ (m_iterators = <<>> => o[n] < s)
    /\ m_iterators # <<>> /\ current # 0 => o[current] = s

Seen(o, i, path) == \E n \in 1..Len(m_entries) : o[n] = i /\ Path(n) = path

\* The directory open at depth d is on the way to path, whose name there is still to come.
AwaitedAt(path, d) ==
    /\ d <= Len(path)
    /\ path[d] \in m_iterators[d]
    /\ \A j \in 1..(d - 1) : path[j] = m_path[j]

\* Nothing of the storages read has been left out; of the one being read, what is
\* missing is awaited.
Complete(o) ==
    /\ \A i \in 1..Len(m_storages) : i < s => \A path \in DOMAIN m_storages[i] : Seen(o, i, path)
    /\ m_iterators # <<>> =>
          \A path \in DOMAIN m_storages[s] :
              Seen(o, s, path) \/ \E d \in 1..Len(m_iterators) : AwaitedAt(path, d)

\* What is to come is there, and has no node yet.
Fresh(o) ==
    \A d \in 1..Len(m_iterators), path \in Seq(Names) :
        AwaitedAt(path, d) /\ Len(path) = d => path \in DOMAIN m_storages[s] /\ ~Seen(o, s, path)

MirrorInv == \E o : Origins(o) /\ Reached(o) /\ Complete(o) /\ Fresh(o)

LEMMA MirrorInit == VfsInit => MirrorInv
<1> SUFFICES ASSUME VfsInit PROVE MirrorInv  OBVIOUS
<1>1. m_entries = <<>> /\ s = 1 /\ m_iterators = <<>>  BY DEF VfsInit
<1>2. Len(m_entries) = 0 /\ Len(m_iterators) = 0  BY <1>1
<1> DEFINE o == [n \in 1..Len(m_entries) |-> 1]
<1>3. Origins(o)  BY <1>2 DEF Origins
<1>4. Reached(o)  BY <1>1, <1>2 DEF Reached
<1>5. Complete(o)  BY <1>1 DEF Complete
<1>6. Fresh(o)  BY <1>2 DEF Fresh
<1> QED  BY <1>3, <1>4, <1>5, <1>6 DEF MirrorInv

\* Everything on the way to a path is there, and is a directory.
LEMMA TreePrefix ==
    ASSUME StoragesInv, NEW i \in 1..Len(m_storages), NEW path \in DOMAIN m_storages[i], NEW d \in 1..Len(path)
    PROVE  /\ SubSeq(path, 1, d) \in DOMAIN m_storages[i]
           /\ d < Len(path) => m_storages[i][SubSeq(path, 1, d)] = Directory
<1> DEFINE n == Len(path)
           tree == m_storages[i]
           Here(k) == /\ SubSeq(path, 1, n - k) \in DOMAIN tree
                      /\ k > 0 => tree[SubSeq(path, 1, n - k)] = Directory
           S == {k \in 0..(n - 1) : Here(k)}
<1>1. path \in Seq(Names) /\ n \in Nat \ {0}  BY DEF StoragesInv
<1>2. SubSeq(path, 1, n) = path  BY <1>1, SubSeqFull
<1>3. 0 \in S
  <2>1. n - 0 = n /\ 0 \in 0..(n - 1)  BY <1>1
  <2>2. SubSeq(path, 1, n - 0) \in DOMAIN tree  BY <1>2, <2>1, Zenon
  <2>3. ~(0 > 0)  OBVIOUS
  <2>4. Here(0)
    <3> HIDE DEF n, tree
    <3> QED  BY <2>2, <2>3, Zenon
  <2> HIDE DEF Here
  <2> QED  BY <2>1, <2>4
<1>4. ASSUME NEW k \in 0..((n - 1) - 1), k \in S
      PROVE  k + 1 \in S
  <2>1. Here(k)  BY <1>4
  <2>2. n - (k + 1) \in 0..(n - 1) /\ (n - (k + 1)) + 1 = n - k /\ n - (k + 1) \in Nat \ {0} /\ k + 1 \in 0..(n - 1)
    BY <1>1
  <2> DEFINE m == n - (k + 1)
  <2>3. m \in 0..(n - 1) /\ m + 1 = n - k /\ m \in Nat \ {0}  BY <2>2, Zenon
  <2> HIDE DEF m
  <2>4. /\ SubSeq(path, 1, m) \in Seq(Names) /\ path[m + 1] \in Names
        /\ SubSeq(path, 1, m + 1) = Append(SubSeq(path, 1, m), path[m + 1])
    BY <1>1, <2>3, PrefixGrows
  <2>5. Front(SubSeq(path, 1, m + 1)) = SubSeq(path, 1, m)  BY <2>4, FrontAppended
  <2>6. SubSeq(path, 1, m + 1) \in DOMAIN tree  BY <2>1, <2>3
  <2>7. Len(SubSeq(path, 1, m + 1)) = m + 1  BY <1>1, <2>3
  <2>8. Len(SubSeq(path, 1, m + 1)) > 1  BY <2>3, <2>7
  <2>9. SubSeq(path, 1, m) \in DOMAIN tree /\ tree[SubSeq(path, 1, m)] = Directory
    BY <2>5, <2>6, <2>8 DEF StoragesInv
  <2>10. Here(k + 1)  BY <2>9 DEF m
  <2> HIDE DEF Here
  <2> QED  BY <2>2, <2>10, Zenon
<1>5. 0..(n - 1) \subseteq S
  <2>1. n - 1 \in Nat  BY <1>1
  <2> HIDE DEF S, n
  <2> QED  BY <1>3, <1>4, <2>1, BoundedInduction
<1>6. n - d \in 0..(n - 1) /\ n - (n - d) = d  BY <1>1
<1>7. Here(n - d)
  <2> HIDE DEF Here
  <2> QED  BY <1>5, <1>6
<1>8. SubSeq(path, 1, d) \in DOMAIN tree  BY <1>6, <1>7
<1>9. d < n => n - d > 0  BY <1>1
<1> QED  BY <1>6, <1>7, <1>8, <1>9

\* A path is what is on the way to it, and its name.
LEMMA PathSplit ==
    ASSUME NEW S, NEW path \in Seq(S), NEW above \in Seq(S), NEW name \in S,
           Len(path) = Len(above) + 1, path[Len(path)] = name, \A j \in 1..Len(above) : path[j] = above[j]
    PROVE  path = Append(above, name)
<1>1. /\ Append(above, name) \in Seq(S) /\ Len(Append(above, name)) = Len(above) + 1
      /\ \A i \in 1..Len(above) : Append(above, name)[i] = above[i]
      /\ Append(above, name)[Len(above) + 1] = name
  BY AppendProperties
<1>2. PICK q : q = Append(above, name)  OBVIOUS
<1>3. \A i \in 1..Len(path) : path[i] = q[i]
  <2> SUFFICES ASSUME NEW i \in 1..Len(path) PROVE path[i] = q[i]  OBVIOUS
  <2>1. CASE i = Len(path)  BY <1>1, <1>2, <2>1
  <2>2. CASE i # Len(path)
    <3>1. i \in 1..Len(above)  BY <2>2
    <3> QED  BY <1>1, <1>2, <3>1
  <2> QED  BY <2>1, <2>2
<1>4. q \in Seq(S) /\ Len(path) = Len(q)  BY <1>1, <1>2
<1>5. path = q  BY <1>3, <1>4, SeqEqual
<1> QED  BY <1>2, <1>5

\* The prefixes of a path, place by place.
LEMMA PrefixPlaces ==
    ASSUME NEW S, NEW path \in Seq(S), NEW d \in 0..Len(path)
    PROVE  /\ SubSeq(path, 1, d) \in Seq(S) /\ Len(SubSeq(path, 1, d)) = d
           /\ \A j \in 1..d : SubSeq(path, 1, d)[j] = path[j]
<1>1. \A j \in 1..d : path[j] \in S  BY ElementOfSeq
<1>2. d \in Int /\ 1 \in Int /\ (IF 1 <= d THEN d - 1 + 1 ELSE 0) = d  OBVIOUS
<1>3. /\ SubSeq(path, 1, d) \in Seq(S) /\ Len(SubSeq(path, 1, d)) = IF 1 <= d THEN d - 1 + 1 ELSE 0
      /\ \A j \in 1..(d - 1 + 1) : SubSeq(path, 1, d)[j] = path[1 + j - 1]
  BY <1>1, <1>2, SubSeqProperties
<1>4. \A j \in 1..d : j \in 1..(d - 1 + 1) /\ 1 + j - 1 = j  OBVIOUS
<1>5. \A j \in 1..d : SubSeq(path, 1, d)[j] = path[j]
  <2> SUFFICES ASSUME NEW j \in 1..d PROVE SubSeq(path, 1, d)[j] = path[j]  OBVIOUS
  <2>1. j \in 1..(d - 1 + 1) /\ 1 + j - 1 = j  BY <1>4
  <2>2. SubSeq(path, 1, d)[j] = path[1 + j - 1]  BY <1>3, <2>1
  <2> QED  BY <2>1, <2>2
<1> QED  BY <1>2, <1>3, <1>5

\* The names opendir finds in a directory are those of the paths there.
LEMMA NamesThere ==
    ASSUME StoragesInv, NEW i \in 1..Len(m_storages), NEW above \in Seq(Names), NEW name \in Names
    PROVE  name \in NamesIn(m_storages[i], above) <=> Append(above, name) \in DOMAIN m_storages[i]
<1>1. ASSUME name \in NamesIn(m_storages[i], above) PROVE Append(above, name) \in DOMAIN m_storages[i]
  <2>1. PICK p \in DOMAIN m_storages[i] : Front(p) = above /\ Last(p) = name  BY <1>1 DEF NamesIn
  <2>2. p \in Seq(Names) /\ p # <<>>  BY DEF StoragesInv
  <2>3. PICK q \in Seq(Names), e \in Names : p = Append(q, e)  BY <2>2, SequenceEmptyOrAppend
  <2>4. q = above /\ e = name  BY <2>1, <2>3, FrontAppended
  <2> QED  BY <2>1, <2>3, <2>4
<1>2. ASSUME Append(above, name) \in DOMAIN m_storages[i] PROVE name \in NamesIn(m_storages[i], above)
  <2>1. Front(Append(above, name)) = above /\ Last(Append(above, name)) = name  BY FrontAppended
  <2> QED  BY <1>2, <2>1 DEF NamesIn
<1> QED  BY <1>1, <1>2

\* The entry next() finds has a path that is there and has no node yet.
LEMMA EntryFresh ==
    ASSUME StoragesInv, ScanInv, NEW o, Fresh(o), NEW name, NEW isDirectory \in BOOLEAN, Entry(name, isDirectory)
    PROVE  /\ s \in 1..Len(m_storages)
           /\ Append(m_path, name) \in DOMAIN m_storages[s]
           /\ ~Seen(o, s, Append(m_path, name))
           /\ isDirectory <=> m_storages[s][Append(m_path, name)] = Directory
<1>1. m_iterators # <<>> /\ name \in Last(m_iterators) /\ (isDirectory <=> m_storages[s][Append(m_path, name)] = Directory)
  BY DEF Entry
<1>2. /\ m_path \in Seq(Names) /\ Len(m_iterators) = Len(m_path) + 1 /\ s \in 1..Len(m_storages)
      /\ Len(m_iterators) \in 1..Len(m_iterators)
  <2>1. Len(m_storages) \in Nat  BY DEF StoragesInv
  <2> QED  BY <1>1, <2>1 DEF ScanInv
<1>3. name \in Names /\ Append(m_path, name) \in Seq(Names)  BY EntryTree
<1> DEFINE path == Append(m_path, name)
<1>4. path \in Seq(Names) /\ Len(path) = Len(m_path) + 1 /\ path[Len(m_path) + 1] = name
      /\ \A j \in 1..Len(m_path) : path[j] = m_path[j]
  BY <1>2, <1>3, AppendProperties
<1> HIDE DEF path
<1>5. AwaitedAt(path, Len(m_iterators)) /\ Len(path) = Len(m_iterators)
  BY <1>1, <1>2, <1>4 DEF AwaitedAt, Last
<1>6. path \in DOMAIN m_storages[s] /\ ~Seen(o, s, path)  BY <1>2, <1>4, <1>5 DEF Fresh
<1> QED  BY <1>1, <1>2, <1>6 DEF path

\* With the new entry the nodes are still what is there.
Continues(o, p, name) ==
    /\ Origins(p)'
    /\ \A n \in 1..(Len(m_entries) + 1) : p[n] <= s
    /\ p[Len(m_entries) + 1] = s
    /\ \A n \in 1..Len(m_entries) : p[n] = o[n]
    /\ \A i \in 1..Len(m_storages) : \A path :
          Seen(p, i, path)' <=> Seen(o, i, path) \/ (i = s /\ path = Append(m_path, name))

LEMMA EntryOrigins ==
    ASSUME StoragesInv, ScanInv, NEW o, Origins(o), Reached(o), Fresh(o),
           NEW name, NEW isDirectory \in BOOLEAN, Entry(name, isDirectory),
           NEW p, p = [n \in 1..(Len(m_entries) + 1) |-> IF n <= Len(m_entries) THEN o[n] ELSE s]
    PROVE  Continues(o, p, name)
<1> DEFINE size == Len(m_entries)
<1>1. PICK last : last = size + 1  OBVIOUS
<1>2. PICK new : new = Append(m_path, name)  OBVIOUS
<1>3. /\ size \in Nat /\ Len(m_entries') = last /\ last \in 1..last
      /\ \A n \in 1..size : m_entries'[n] = m_entries[n] /\ Path(n)' = Path(n) /\ n \in 1..last
      /\ m_entries'[last] = [name |-> name, parent |-> current, storage |-> IF isDirectory THEN 0 ELSE s]
      /\ PathOf(m_entries', last) = new
      /\ m_storages' = m_storages /\ s' = s
  <2>1. m_storages' = m_storages /\ s' = s  BY DEF Entry
  <2>2. size \in Nat  BY EntryTree
  <2>3. last \in 1..last /\ \A n \in 1..size : n \in 1..last /\ n \in 0..size  BY <1>1, <2>2
  <2>4. \A n \in 0..size : Path(n)' = Path(n)  BY EntryTree
  <2>5. \A n \in 1..size : Path(n)' = Path(n)  BY <2>3, <2>4
  <2>6. PathOf(m_entries', last) = new  BY <1>1, <1>2, EntryTree
  <2>7. Len(m_entries') = last /\ (\A n \in 1..size : m_entries'[n] = m_entries[n])
        /\ m_entries'[last] = [name |-> name, parent |-> current, storage |-> IF isDirectory THEN 0 ELSE s]
    BY <1>1, EntryTree
  <2> QED  BY <2>1, <2>2, <2>3, <2>5, <2>6, <2>7
<1>4. /\ s \in 1..Len(m_storages) /\ new \in DOMAIN m_storages[s] /\ ~Seen(o, s, new)
      /\ (isDirectory <=> m_storages[s][new] = Directory)
  BY <1>2, EntryFresh
<1>5. \A n \in 1..last : n \in 1..size \/ n = last  BY <1>1, <1>3
<1>6. p[last] = s /\ (\A n \in 1..size : p[n] = o[n]) /\ DOMAIN p = 1..last /\ last \notin 1..size
  BY <1>1, <1>3
<1>7. p = [n \in 1..last |-> p[n]]  BY <1>1
<1>8. \A n \in 1..size : o[n] \in 1..Len(m_storages) /\ o[n] <= s  BY DEF Origins, Reached
<1>9. Path(last)' = new
  <2>1. Path(last)' = PathOf(m_entries', last)  BY DEF Path
  <2> QED  BY <1>3, <2>1
<1>10. p \in [1..last -> 1..Len(m_storages)]
  <2>1. \A n \in 1..last : p[n] \in 1..Len(m_storages)  BY <1>4, <1>5, <1>6, <1>8
  <2> QED  BY <1>7, <2>1
<1>11. ASSUME NEW n \in 1..last
       PROVE  /\ Path(n)' \in DOMAIN m_storages[p[n]]
              /\ m_entries'[n].storage = IF m_storages[p[n]][Path(n)'] = Directory THEN 0 ELSE p[n]
              /\ m_entries'[n].parent # 0 => p[m_entries'[n].parent] = p[n]
  <2>1. CASE n \in 1..size
    <3>1. m_entries'[n] = m_entries[n] /\ Path(n)' = Path(n) /\ p[n] = o[n]  BY <1>3, <1>6, <2>1
    <3>2. m_entries[n].parent # 0 => m_entries[n].parent \in 1..size
      <4>1. m_entries \in Seq([name : Names, parent : Nat, storage : Nat]) /\ m_entries[n].parent < n
        BY <2>1 DEF ScanInv, IsTree
      <4>2. m_entries[n] \in [name : Names, parent : Nat, storage : Nat]  BY <2>1, <4>1, ElementOfSeq
      <4>3. m_entries[n].parent \in Nat  BY <4>2
      <4> QED  BY <1>3, <2>1, <4>1, <4>3
    <3>3. m_entries[n].parent # 0 => p[m_entries[n].parent] = o[m_entries[n].parent]  BY <1>6, <3>2
    <3> QED  BY <2>1, <3>1, <3>3 DEF Origins
  <2>2. CASE n = last
    <3>1. m_entries'[n].parent = current /\ m_entries'[n].storage = IF isDirectory THEN 0 ELSE s
      BY <1>3, <2>2
    <3>2. current # 0 => p[current] = s
      <4>1. m_iterators # <<>>  BY DEF Entry
      <4>2. current # 0 => o[current] = s /\ current \in 1..size  BY <1>3, <4>1 DEF Reached, ScanInv
      <4> QED  BY <1>6, <4>2
    <3> QED  BY <1>4, <1>6, <1>9, <2>2, <3>1, <3>2
  <2> QED  BY <1>5, <2>1, <2>2
<1>12. \A n, k \in 1..last : n <= k => p[n] <= p[k]
  <2> SUFFICES ASSUME NEW n \in 1..last, NEW k \in 1..last, n <= k PROVE p[n] <= p[k]  OBVIOUS
  <2>1. CASE k = last
    <3>1. CASE n = last  BY <1>4, <1>6, <2>1, <3>1
    <3>2. CASE n \in 1..size  BY <1>6, <1>8, <2>1, <3>2
    <3> QED  BY <1>5, <3>1, <3>2
  <2>2. CASE k \in 1..size
    <3>1. n \in 1..size  BY <1>3, <2>2
    <3> QED  BY <1>6, <2>2, <3>1 DEF Origins
  <2> QED  BY <1>5, <2>1, <2>2
<1>13. ASSUME NEW n \in 1..last, NEW k \in 1..last, p[n] = p[k], Path(n)' = Path(k)'
       PROVE  n = k
  <2>1. CASE n \in 1..size /\ k \in 1..size  BY <1>3, <1>6, <1>13, <2>1 DEF Origins
  <2>2. CASE n = last /\ k \in 1..size
    <3>1. o[k] = s /\ Path(k) = new  BY <1>3, <1>6, <1>9, <1>13, <2>2
    <3> QED  BY <1>4, <2>2, <3>1 DEF Seen
  <2>3. CASE k = last /\ n \in 1..size
    <3>1. o[n] = s /\ Path(n) = new  BY <1>3, <1>6, <1>9, <1>13, <2>3
    <3> QED  BY <1>4, <2>3, <3>1 DEF Seen
  <2> QED  BY <1>5, <2>1, <2>2, <2>3
<1>14. Origins(p)'
  <2>1. 1..Len(m_entries') = 1..last /\ m_storages' = m_storages  BY <1>3
  <2> QED  BY <1>10, <1>11, <1>12, <1>13, <2>1 DEF Origins
<1>15. ASSUME NEW i \in 1..Len(m_storages), NEW path
       PROVE  Seen(p, i, path)' <=> Seen(o, i, path) \/ (i = s /\ path = new)
  <2>1. Seen(p, i, path)' <=> \E n \in 1..last : p[n] = i /\ Path(n)' = path
    <3>1. 1..Len(m_entries') = 1..last  BY <1>3
    <3> QED  BY <3>1 DEF Seen
  <2>2. ASSUME NEW n \in 1..last, p[n] = i, Path(n)' = path PROVE Seen(o, i, path) \/ (i = s /\ path = new)
    BY <1>3, <1>5, <1>6, <1>9, <2>2 DEF Seen
  <2>3. ASSUME Seen(o, i, path) PROVE \E n \in 1..last : p[n] = i /\ Path(n)' = path
    BY <1>3, <1>6, <2>3 DEF Seen
  <2>4. ASSUME i = s, path = new PROVE \E n \in 1..last : p[n] = i /\ Path(n)' = path
    BY <1>3, <1>6, <1>9, <2>4
  <2> QED  BY <2>1, <2>2, <2>3, <2>4
<1>16. \A n \in 1..last : p[n] <= s  BY <1>4, <1>5, <1>6, <1>8
<1> QED  BY <1>1, <1>2, <1>6, <1>14, <1>15, <1>16 DEF Continues

\* A path that was awaited under the name next() has found: it is the new entry's,
\* or lies below it.
LEMMA FoundOnTheWay ==
    ASSUME StoragesInv, ScanInv, m_iterators # <<>>, NEW name \in Names,
           NEW path \in DOMAIN m_storages[s], AwaitedAt(path, Len(m_iterators)),
           path[Len(m_iterators)] = name
    PROVE  /\ Len(m_iterators) = Len(path) => path = Append(m_path, name)
           /\ Len(m_iterators) < Len(path) =>
                 /\ m_storages[s][Append(m_path, name)] = Directory
                 /\ path[Len(m_iterators) + 1] \in NamesIn(m_storages[s], Append(m_path, name))
<1> DEFINE top == Len(m_iterators)
<1>1. /\ s \in 1..Len(m_storages) /\ m_path \in Seq(Names) /\ top = Len(m_path) + 1 /\ top \in Nat \ {0}
      /\ path \in Seq(Names) /\ top <= Len(path) /\ Len(path) \in Nat /\ Len(m_path) \in Nat
      /\ \A j \in 1..Len(m_path) : path[j] = m_path[j]
  <2>1. s \in 1..Len(m_storages) /\ m_path \in Seq(Names) /\ top = Len(m_path) + 1
    <3>1. Len(m_storages) \in Nat  BY DEF StoragesInv
    <3> QED  BY <3>1 DEF ScanInv
  <2>2. path \in Seq(Names)  BY <2>1 DEF StoragesInv
  <2>3. top <= Len(path) /\ \A j \in 1..(top - 1) : path[j] = m_path[j]  BY DEF AwaitedAt
  <2>4. top \in Nat \ {0} /\ top - 1 = Len(m_path) /\ Len(m_path) \in Nat /\ Len(path) \in Nat  BY <2>1, <2>2
  <2> QED  BY <2>1, <2>2, <2>3, <2>4
<1> HIDE DEF top
<1> DEFINE q == SubSeq(path, 1, top)
<1>2. top \in 0..Len(path)  BY <1>1
<1>3. q \in Seq(Names) /\ Len(q) = top /\ \A j \in 1..top : q[j] = path[j]  BY <1>1, <1>2, PrefixPlaces
<1>4. q = Append(m_path, name)
  <2>1. Len(q) = Len(m_path) + 1  BY <1>1, <1>3
  <2>2. top \in 1..top /\ \A j \in 1..Len(m_path) : j \in 1..top  BY <1>1
  <2>3. q[Len(q)] = name  BY <1>3, <2>2 DEF top
  <2>4. \A j \in 1..Len(m_path) : q[j] = m_path[j]  BY <1>1, <1>3, <2>2
  <2> HIDE DEF q
  <2> QED  BY <1>1, <1>3, <2>1, <2>3, <2>4, PathSplit
<1>5. ASSUME top = Len(path) PROVE path = Append(m_path, name)
  <2>1. q = path  BY <1>1, <1>5, SubSeqFull
  <2> QED  BY <1>4, <2>1
<1>6. ASSUME top < Len(path)
      PROVE  /\ m_storages[s][Append(m_path, name)] = Directory
             /\ path[top + 1] \in NamesIn(m_storages[s], Append(m_path, name))
  <2>1. top \in 1..Len(path) /\ top + 1 \in 1..Len(path) /\ top \in 0..(Len(path) - 1)  BY <1>1, <1>6
  <2>2. m_storages[s][q] = Directory  BY <1>1, <1>6, <2>1, TreePrefix
  <2>3. SubSeq(path, 1, top + 1) \in DOMAIN m_storages[s]  BY <1>1, <2>1, TreePrefix
  <2>4. SubSeq(path, 1, top + 1) = Append(q, path[top + 1]) /\ path[top + 1] \in Names
    BY <1>1, <2>1, PrefixGrows
  <2>5. Append(q, path[top + 1]) \in DOMAIN m_storages[s]  BY <2>3, <2>4
  <2> HIDE DEF q
  <2>6. path[top + 1] \in NamesIn(m_storages[s], q)  BY <1>1, <1>3, <2>4, <2>5, NamesThere
  <2> QED  BY <1>4, <2>2, <2>6
<1> QED  BY <1>5, <1>6 DEF top

LEMMA MirrorFile ==
    ASSUME StoragesInv, ScanInv, NEW o, Origins(o), Reached(o), Complete(o), Fresh(o), NEW name, next_file(name)
    PROVE  MirrorInv'
<1>0. PICK top, size, here : top = Len(m_iterators) /\ size = Len(m_entries) /\ here = s  OBVIOUS
<1>1. Entry(name, FALSE) /\ m_iterators' = NamesLeft(name) /\ UNCHANGED <<m_path, current>>
  BY DEF next_file
<1>2. m_iterators # <<>> /\ m_storages' = m_storages /\ s' = s  BY <1>1 DEF Entry
<1>3. PICK new : new = Append(m_path, name)  OBVIOUS
<1>4. PICK r : r = [n \in 1..(Len(m_entries) + 1) |-> IF n <= Len(m_entries) THEN o[n] ELSE s]  OBVIOUS
<1>5. /\ Origins(r)'
      /\ \A n \in 1..(size + 1) : r[n] <= s
      /\ r[size + 1] = s
      /\ \A n \in 1..size : r[n] = o[n]
      /\ \A i \in 1..Len(m_storages) : \A path : Seen(r, i, path)' <=> Seen(o, i, path) \/ (i = s /\ path = new)
  <2>1. Continues(o, r, name)  BY <1>1, <1>4, EntryOrigins, Zenon
  <2> QED  BY <1>0, <1>3, <2>1 DEF Continues
<1>6. /\ s \in 1..Len(m_storages) /\ new \in DOMAIN m_storages[s] /\ m_storages[s][new] # Directory
      /\ name \in Names /\ size \in Nat /\ Len(m_entries') = size + 1 /\ Names' = Names
  BY <1>0, <1>1, <1>2, <1>3, EntryFresh, EntryTree, StoragesStep
<1>7. /\ Len(m_iterators') = top /\ top \in 1..top
      /\ m_iterators'[top] = m_iterators[top] \ {name}
      /\ \A d \in 1..top : d # top => m_iterators'[d] = m_iterators[d]
  BY <1>0, <1>1, <1>2, NamesLeftType
<1>8. m_iterators' # <<>>  BY <1>7
<1>9. Reached(r)'
  <2>1. current # 0 => current \in 1..size /\ o[current] = s
    BY <1>0, <1>2, <1>6 DEF Reached, ScanInv
  <2>2. current # 0 => r[current] = s  BY <1>5, <2>1
  <2>3. Len(m_entries') = size + 1  BY <1>6
  <2> QED  BY <1>1, <1>2, <1>5, <1>8, <2>2, <2>3 DEF Reached
<1>10. Complete(r)'
  <2>1. ASSUME NEW i \in 1..Len(m_storages), i < s, NEW path \in DOMAIN m_storages[i]
        PROVE  Seen(r, i, path)'
    BY <1>5, <2>1 DEF Complete
  <2>2. ASSUME NEW path \in DOMAIN m_storages[s]
        PROVE  Seen(r, here, path)' \/ \E d \in 1..top : AwaitedAt(path, d)'
    <3>1. CASE Seen(o, s, path)  BY <1>0, <1>5, <1>6, <3>1
    <3>2. ASSUME NEW d \in 1..top, AwaitedAt(path, d)
          PROVE  Seen(r, here, path)' \/ \E e \in 1..top : AwaitedAt(path, e)'
      <4>1. CASE d = top /\ path[d] = name
        <5>1. top <= Len(path) /\ Len(path) \in Nat /\ top \in Nat
          <6>1. path \in Seq(Names)  BY <1>6 DEF StoragesInv
          <6> QED  BY <3>2, <4>1, <6>1 DEF AwaitedAt
        <5>2. /\ top = Len(path) => path = new
              /\ top < Len(path) => m_storages[s][new] = Directory
          <6>1. AwaitedAt(path, Len(m_iterators)) /\ path[Len(m_iterators)] = name  BY <1>0, <3>2, <4>1
          <6>2. /\ Len(m_iterators) = Len(path) => path = Append(m_path, name)
                /\ Len(m_iterators) < Len(path) => m_storages[s][Append(m_path, name)] = Directory
            BY <1>2, <1>6, <6>1, FoundOnTheWay
          <6> QED  BY <1>0, <1>3, <6>2
        <5>3. path = new  BY <1>6, <5>1, <5>2
        <5> QED  BY <1>0, <1>5, <1>6, <5>3
      <4>2. CASE ~(d = top /\ path[d] = name)
        <5>1. path[d] \in m_iterators'[d]  BY <1>7, <3>2, <4>2 DEF AwaitedAt
        <5>2. AwaitedAt(path, d)'  BY <1>1, <3>2, <5>1 DEF AwaitedAt
        <5> QED  BY <5>2
      <4> QED  BY <4>1, <4>2
    <3> QED  BY <1>0, <1>2, <3>1, <3>2 DEF Complete
  <2>3. m_storages' = m_storages /\ s' = here /\ s = here /\ Len(m_iterators') = top  BY <1>0, <1>2, <1>7
  <2> QED  BY <2>1, <2>2, <2>3 DEF Complete
<1>11. Fresh(r)'
  <2> SUFFICES ASSUME NEW d \in 1..top, NEW path \in Seq(Names), AwaitedAt(path, d)', Len(path) = d
               PROVE  path \in DOMAIN m_storages[s] /\ ~Seen(r, here, path)'
    <3>1. m_storages' = m_storages /\ s' = here /\ s = here /\ Len(m_iterators') = top /\ Names' = Names
      BY <1>0, <1>2, <1>6, <1>7
    <3> QED  BY <3>1 DEF Fresh
  <2>1. path[d] \in m_iterators'[d] /\ (d = top => path[d] # name)  BY <1>7 DEF AwaitedAt
  <2>2. AwaitedAt(path, d)
    <3>1. path[d] \in m_iterators[d]  BY <1>7, <2>1
    <3> QED  BY <1>1, <3>1 DEF AwaitedAt
  <2>3. path \in DOMAIN m_storages[s] /\ ~Seen(o, s, path)  BY <1>0, <2>2 DEF Fresh
  <2>4. path # new
    <3>1. m_path \in Seq(Names) /\ Len(m_path) + 1 = top  BY <1>0, <1>2 DEF ScanInv
    <3>2. Len(new) = Len(m_path) + 1 /\ new[Len(m_path) + 1] = name  BY <1>3, <1>6, <3>1, AppendProperties
    <3> QED  BY <2>1, <3>1, <3>2
  <2> QED  BY <1>0, <1>5, <1>6, <2>3, <2>4
<1> QED  BY <1>5, <1>9, <1>10, <1>11 DEF MirrorInv

LEMMA MirrorDirectory ==
    ASSUME StoragesInv, ScanInv, NEW o, Origins(o), Reached(o), Complete(o), Fresh(o), NEW name, next_directory(name)
    PROVE  MirrorInv'
<1>0. PICK top, size, here : top = Len(m_iterators) /\ size = Len(m_entries) /\ here = s  OBVIOUS
<1>1. /\ Entry(name, TRUE) /\ m_path' = Append(m_path, name)
      /\ m_iterators' = Append(NamesLeft(name), NamesIn(m_storages[s], m_path')) /\ current' = Len(m_entries')
  BY DEF next_directory
<1>2. m_iterators # <<>> /\ m_storages' = m_storages /\ s' = s  BY <1>1 DEF Entry
<1>3. PICK new : new = Append(m_path, name)  OBVIOUS
<1>4. PICK r : r = [n \in 1..(Len(m_entries) + 1) |-> IF n <= Len(m_entries) THEN o[n] ELSE s]  OBVIOUS
<1>5. /\ Origins(r)'
      /\ \A n \in 1..(size + 1) : r[n] <= s
      /\ r[size + 1] = s
      /\ \A n \in 1..size : r[n] = o[n]
      /\ \A i \in 1..Len(m_storages) : \A path : Seen(r, i, path)' <=> Seen(o, i, path) \/ (i = s /\ path = new)
  <2>1. Continues(o, r, name)  BY <1>1, <1>4, EntryOrigins, Zenon
  <2> QED  BY <1>0, <1>3, <2>1 DEF Continues
<1>6. /\ s \in 1..Len(m_storages) /\ new \in DOMAIN m_storages[s] /\ ~Seen(o, s, new)
      /\ name \in Names /\ size \in Nat /\ Len(m_entries') = size + 1 /\ Names' = Names
      /\ IsTree(m_entries', Names)
  BY <1>0, <1>1, <1>2, <1>3, EntryFresh, EntryTree, StoragesStep
<1>7. /\ m_path \in Seq(Names) /\ Len(m_path) + 1 = top /\ m_path' = new /\ new \in Seq(Names)
      /\ Len(new) = top /\ new[top] = name /\ \A j \in 1..(top - 1) : new[j] = m_path[j]
  <2>1. m_path \in Seq(Names) /\ Len(m_path) + 1 = top  BY <1>0, <1>2 DEF ScanInv
  <2>2. Len(m_path) = top - 1  BY <2>1
  <2> QED  BY <1>1, <1>3, <1>6, <2>1, <2>2, AppendProperties
<1>8. /\ Len(m_iterators') = top + 1 /\ top \in 1..top /\ m_iterators' # <<>>
      /\ m_iterators'[top + 1] = NamesIn(m_storages[s], new)
      /\ m_iterators'[top] = m_iterators[top] \ {name}
      /\ \A d \in 1..top : d # top => m_iterators'[d] = m_iterators[d]
  <2>1. NamesIn(m_storages[s], new) \in SUBSET Names  BY <1>6, NamesInNames
  <2>2. /\ NamesLeft(name) \in Seq(SUBSET Names) /\ Len(NamesLeft(name)) = top /\ top \in 1..top
        /\ NamesLeft(name)[top] = m_iterators[top] \ {name}
        /\ \A d \in 1..top : d # top => NamesLeft(name)[d] = m_iterators[d]
    BY <1>0, <1>2, NamesLeftType
  <2>3. m_iterators' = Append(NamesLeft(name), NamesIn(m_storages[s], new))  BY <1>1, <1>7
  <2>4. /\ Len(m_iterators') = top + 1 /\ m_iterators' # <<>>
        /\ \A d \in 1..top : m_iterators'[d] = NamesLeft(name)[d]
        /\ m_iterators'[top + 1] = NamesIn(m_storages[s], new)
    BY <2>1, <2>2, <2>3, AppendProperties
  <2> QED  BY <2>2, <2>4
<1>9. Reached(r)'
  <2>1. current' = size + 1 /\ Len(m_entries') = size + 1  BY <1>1, <1>6
  <2> QED  BY <1>2, <1>5, <1>8, <2>1 DEF Reached
<1>10. Complete(r)'
  <2>1. ASSUME NEW i \in 1..Len(m_storages), i < s, NEW path \in DOMAIN m_storages[i]
        PROVE  Seen(r, i, path)'
    BY <1>5, <2>1 DEF Complete
  <2>2. ASSUME NEW path \in DOMAIN m_storages[s]
        PROVE  Seen(r, here, path)' \/ \E d \in 1..(top + 1) : AwaitedAt(path, d)'
    <3>1. CASE Seen(o, s, path)  BY <1>0, <1>5, <1>6, <3>1
    <3>2. ASSUME NEW d \in 1..top, AwaitedAt(path, d)
          PROVE  Seen(r, here, path)' \/ \E e \in 1..(top + 1) : AwaitedAt(path, e)'
      <4>0. top \in Nat /\ d \in 1..(top + 1) /\ top + 1 \in 1..(top + 1) /\ d \in Nat  BY <1>8
      <4>1. CASE d = top /\ path[d] = name
        <5>1. top <= Len(path) /\ Len(path) \in Nat
          <6>1. path \in Seq(Names)  BY <1>6 DEF StoragesInv
          <6> QED  BY <3>2, <4>1, <6>1 DEF AwaitedAt
        <5>2. /\ top = Len(path) => path = new
              /\ top < Len(path) => path[top + 1] \in NamesIn(m_storages[s], new)
          <6>1. AwaitedAt(path, Len(m_iterators)) /\ path[Len(m_iterators)] = name  BY <1>0, <3>2, <4>1
          <6>2. /\ Len(m_iterators) = Len(path) => path = Append(m_path, name)
                /\ Len(m_iterators) < Len(path) =>
                      path[Len(m_iterators) + 1] \in NamesIn(m_storages[s], Append(m_path, name))
            BY <1>2, <1>6, <6>1, FoundOnTheWay
          <6> QED  BY <1>0, <1>3, <6>2
        <5>3. CASE top = Len(path)  BY <1>0, <1>5, <1>6, <5>2, <5>3
        <5>4. CASE top < Len(path)
          <6>1. top + 1 <= Len(path) /\ path[top + 1] \in m_iterators'[top + 1]  BY <1>8, <4>0, <5>1, <5>2, <5>4
          <6>2. \A j \in 1..top : path[j] = m_path'[j]
            <7>1. \A j \in 1..(top - 1) : path[j] = m_path[j]  BY <3>2, <4>1 DEF AwaitedAt
            <7>2. \A j \in 1..top : j = top \/ j \in 1..(top - 1)  BY <4>0
            <7> QED  BY <1>7, <4>1, <7>1, <7>2
          <6>3. (top + 1) - 1 = top  BY <4>0
          <6>4. AwaitedAt(path, top + 1)'  BY <6>1, <6>2, <6>3 DEF AwaitedAt
          <6> QED  BY <4>0, <6>4
        <5> QED  BY <4>0, <5>1, <5>3, <5>4
      <4>2. CASE ~(d = top /\ path[d] = name)
        <5>1. path[d] \in m_iterators'[d] /\ d <= Len(path)  BY <1>8, <3>2, <4>2 DEF AwaitedAt
        <5>2. \A j \in 1..(d - 1) : path[j] = m_path'[j]
          <6>1. \A j \in 1..(d - 1) : j \in 1..(top - 1)  BY <4>0
          <6> QED  BY <1>7, <3>2, <6>1 DEF AwaitedAt
        <5>3. AwaitedAt(path, d)'  BY <5>1, <5>2 DEF AwaitedAt
        <5> QED  BY <4>0, <5>3
      <4> QED  BY <4>1, <4>2
    <3> QED  BY <1>0, <1>2, <3>1, <3>2 DEF Complete
  <2>3. m_storages' = m_storages /\ s' = here /\ s = here /\ Len(m_iterators') = top + 1  BY <1>0, <1>2, <1>8
  <2> QED  BY <2>1, <2>2, <2>3 DEF Complete
<1>11. Fresh(r)'
  <2> SUFFICES ASSUME NEW d \in 1..(top + 1), NEW path \in Seq(Names), AwaitedAt(path, d)', Len(path) = d
               PROVE  path \in DOMAIN m_storages[s] /\ ~Seen(r, here, path)'
    <3>1. m_storages' = m_storages /\ s' = here /\ s = here /\ Len(m_iterators') = top + 1 /\ Names' = Names
      BY <1>0, <1>2, <1>6, <1>8
    <3> QED  BY <3>1 DEF Fresh
  <2>0. /\ top \in Nat /\ d \in Nat /\ (d \in 1..top \/ d = top + 1)
        /\ path[d] \in m_iterators'[d] /\ \A j \in 1..(d - 1) : path[j] = new[j]
    BY <1>7, <1>8 DEF AwaitedAt
  <2>1. CASE d \in 1..top
    <3>1. path[d] \in m_iterators[d] /\ (d = top => path[d] # name)  BY <1>8, <2>0, <2>1
    <3>2. \A j \in 1..(d - 1) : path[j] = m_path[j]
      <4>1. \A j \in 1..(d - 1) : j \in 1..(top - 1)  BY <2>0, <2>1
      <4> QED  BY <1>7, <2>0, <4>1
    <3>3. AwaitedAt(path, d)  BY <2>0, <3>1, <3>2 DEF AwaitedAt
    <3>4. path \in DOMAIN m_storages[s] /\ ~Seen(o, s, path)  BY <1>0, <2>1, <3>3 DEF Fresh
    <3>5. path # new  BY <1>7, <3>1
    <3> QED  BY <1>0, <1>5, <1>6, <3>4, <3>5
  <2>2. CASE d = top + 1
    <3>1. path[top + 1] \in NamesIn(m_storages[s], new) /\ \A j \in 1..top : path[j] = new[j]
      <4>1. (top + 1) - 1 = top  BY <2>0
      <4> QED  BY <1>8, <2>0, <2>2, <4>1
    <3>2. path[top + 1] \in Names
      <4>1. top + 1 \in 1..Len(path)  BY <2>0, <2>2
      <4> QED  BY <4>1, ElementOfSeq
    <3>3. path = Append(new, path[top + 1])  BY <1>7, <2>2, <3>1, <3>2, PathSplit
    <3>4. path \in DOMAIN m_storages[s]  BY <1>6, <1>7, <3>1, <3>2, <3>3, NamesThere
    <3>5. ASSUME Seen(r, here, path)' PROVE FALSE
      <4>1. PICK n \in 1..(size + 1) : r[n] = s /\ Path(n)' = path  BY <1>0, <1>6, <3>5 DEF Seen
      <4> DEFINE above == m_entries'[n].parent
      <4>2. above \in 0..(size + 1) /\ above < n /\ m_entries'[n].name \in Names
        <5>1. m_entries' \in Seq([name : Names, parent : Nat, storage : Nat]) /\ m_entries'[n].parent < n
          BY <1>6, <4>1 DEF IsTree
        <5>2. m_entries'[n] \in [name : Names, parent : Nat, storage : Nat]  BY <1>6, <4>1, <5>1, ElementOfSeq
        <5> QED  BY <1>6, <5>1, <5>2
      <4>3. Path(n)' = Append(PathOf(m_entries', above), m_entries'[n].name) /\ PathOf(m_entries', above) \in Seq(Names)
        BY <1>6, <4>1, <4>2, PathDef DEF Path
      <4>4. PathOf(m_entries', above) = new
        <5>1. Front(path) = new  BY <1>7, <3>2, <3>3, FrontAppended
        <5>2. Front(path) = PathOf(m_entries', above)  BY <4>1, <4>2, <4>3, FrontAppended
        <5> QED  BY <5>1, <5>2
      <4>5. above # 0
        <5>1. PathOf(m_entries', 0) = <<>>  BY <1>6, PathDef DEF Root
        <5>2. new # <<>>  BY <1>3, <1>6, <1>7, AppendProperties
        <5> QED  BY <4>4, <5>1, <5>2
      <4>6. above \in 1..(size + 1)  BY <1>6, <4>2, <4>5
      <4>7. r[above] = s  BY <1>5, <1>6, <4>1, <4>5 DEF Origins
      <4>8. PathOf(m_entries', size + 1) = new  BY <1>0, <1>1, <1>3, EntryTree
      <4>9. PICK a, b : a = above /\ b = size + 1  OBVIOUS
      <4>10. Path(a)' = Path(b)' /\ r[a] = r[b] /\ a \in 1..Len(m_entries') /\ b \in 1..Len(m_entries')
        <5>1. Path(a)' = PathOf(m_entries', a) /\ Path(b)' = PathOf(m_entries', b)  BY DEF Path
        <5>2. size + 1 \in 1..(size + 1)  BY <1>6
        <5> QED  BY <1>5, <1>6, <4>4, <4>6, <4>7, <4>8, <4>9, <5>1, <5>2
      <4>11. a = b  BY <1>5, <4>10 DEF Origins
      <4> QED  BY <1>6, <4>1, <4>2, <4>9, <4>11
    <3> QED  BY <3>4, <3>5
  <2> QED  BY <2>0, <2>1, <2>2
<1> QED  BY <1>5, <1>9, <1>10, <1>11 DEF MirrorInv

\* A step that leaves the nodes alone leaves what is known of them.
LEMMA SameNodes ==
    ASSUME m_entries' = m_entries, m_storages' = m_storages, NEW o
    PROVE  /\ Names' = Names
           /\ Origins(o) => Origins(o)'
           /\ \A n : Path(n)' = Path(n)
           /\ \A i, path : Seen(o, i, path)' <=> Seen(o, i, path)
<1>1. \A n : Path(n)' = Path(n)  BY DEF Path
<1>2. Names' = Names  BY DEF Names
<1>3. Origins(o) => Origins(o)'  BY <1>1 DEF Origins
<1>4. \A i, path : Seen(o, i, path)' <=> Seen(o, i, path)  BY <1>1 DEF Seen
<1> QED  BY <1>1, <1>2, <1>3, <1>4

LEMMA MirrorEnd ==
    ASSUME StoragesInv, ScanInv, NEW o, Origins(o), Reached(o), Complete(o), Fresh(o), next_end
    PROVE  MirrorInv'
<1>0. PICK top, here : top = Len(m_iterators) /\ here = s  OBVIOUS
<1>1. /\ m_iterators # <<>> /\ Last(m_iterators) = {} /\ m_iterators' = Front(m_iterators)
      /\ m_path' = IF m_iterators' = <<>> THEN m_path ELSE Front(m_path)
      /\ m_entries' = m_entries /\ m_storages' = m_storages
      /\ current = 0 => s' = s + 1 /\ current' = current
      /\ current # 0 => current' = m_entries[current].parent /\ s' = s
  BY DEF next_end, Root
<1>2. /\ m_iterators \in Seq(SUBSET Names) /\ m_path \in Seq(Names) /\ m_path = Path(current)
      /\ Len(m_iterators) = Len(m_path) + 1 /\ s \in 1..Len(m_storages) /\ current \in 0..Len(m_entries)
      /\ IsTree(m_entries, Names) /\ Len(m_entries) \in Nat /\ Len(m_storages) \in Nat
  <2>1. IsTree(m_entries, Names)  BY DEF ScanInv
  <2>2. Len(m_entries) \in Nat  BY <2>1 DEF IsTree
  <2>3. Len(m_storages) \in Nat  BY DEF StoragesInv
  <2> QED  BY <1>1, <2>1, <2>2, <2>3 DEF ScanInv
<1>3. top \in Nat \ {0} /\ Len(m_path) = top - 1 /\ s \in Nat  BY <1>0, <1>1, <1>2
<1>4. m_iterators[top] = {}  BY <1>0, <1>1 DEF Last
<1>5. Len(m_iterators') = top - 1 /\ \A d \in 1..(top - 1) : m_iterators'[d] = m_iterators[d]
  <2>1. PICK q : q = m_iterators  OBVIOUS
  <2>2. top - 1 \in 0..Len(q) /\ q \in Seq(SUBSET Names)  BY <1>0, <1>2, <1>3, <2>1
  <2>3. Len(SubSeq(q, 1, top - 1)) = top - 1 /\ \A j \in 1..(top - 1) : SubSeq(q, 1, top - 1)[j] = q[j]
    <3>1. PICK d : d = top - 1  OBVIOUS
    <3>2. d \in 0..Len(q)  BY <2>2, <3>1
    <3>3. Len(SubSeq(q, 1, d)) = d /\ \A j \in 1..d : SubSeq(q, 1, d)[j] = q[j]  BY <2>2, <3>2, PrefixPlaces
    <3> QED  BY <3>1, <3>3
  <2>4. m_iterators' = SubSeq(q, 1, top - 1)  BY <1>0, <1>1, <2>1 DEF Front
  <2> QED  BY <2>1, <2>3, <2>4
<1>6. ASSUME top > 1 PROVE \A j \in 1..(top - 2) : m_path'[j] = m_path[j]
  <2>1. m_iterators' # <<>>  BY <1>3, <1>5, <1>6
  <2>2. m_path' = Front(m_path)  BY <1>1, <2>1
  <2>3. PICK q, d : q = m_path /\ d = top - 2  OBVIOUS
  <2>4. d \in 0..Len(q) /\ q \in Seq(Names) /\ Len(q) - 1 = d  BY <1>2, <1>3, <1>6, <2>3
  <2>5. \A j \in 1..d : SubSeq(q, 1, d)[j] = q[j]  BY <2>4, PrefixPlaces
  <2> QED  BY <2>2, <2>3, <2>4, <2>5 DEF Front
<1>7. /\ Names' = Names /\ Origins(o)'
      /\ \A n : Path(n)' = Path(n)
      /\ \A i, path : Seen(o, i, path)' <=> Seen(o, i, path)
  BY <1>1, SameNodes
<1>8. ASSUME NEW d \in 1..(top - 1), NEW path
      PROVE  AwaitedAt(path, d)' <=> AwaitedAt(path, d)
  <2>1. top > 1 /\ m_iterators'[d] = m_iterators[d] /\ \A j \in 1..(d - 1) : j \in 1..(top - 2)
    BY <1>3, <1>5
  <2>2. \A j \in 1..(d - 1) : m_path'[j] = m_path[j]  BY <1>6, <2>1
  <2> QED  BY <2>1, <2>2 DEF AwaitedAt
<1>9. Fresh(o)'
  <2> SUFFICES ASSUME NEW d \in 1..(top - 1), NEW path \in Seq(Names), AwaitedAt(path, d), Len(path) = d
               PROVE  path \in DOMAIN m_storages[here] /\ ~Seen(o, here, path) /\ s' = s
    <3>1. 1..Len(m_iterators') = 1..(top - 1)  BY <1>5
    <3> QED  BY <1>0, <1>1, <1>7, <1>8, <3>1 DEF Fresh
  <2>1. d \in 1..top  BY <1>3
  <2>2. path \in DOMAIN m_storages[here] /\ ~Seen(o, here, path)  BY <1>0, <2>1 DEF Fresh
  <2>3. current # 0
    <3>1. SUFFICES ASSUME current = 0 PROVE FALSE  OBVIOUS
    <3>2. m_path = <<>>  BY <1>2, <3>1, PathDef DEF Path, Root
    <3> QED  BY <1>3, <3>2
  <2> QED  BY <1>1, <2>2, <2>3
<1>10. CASE current = 0
  <2>1. m_path = <<>> /\ top = 1
    <3>1. m_path = <<>>  BY <1>2, <1>10, PathDef DEF Path, Root
    <3> QED  BY <1>3, <3>1
  <2>2. m_iterators' = <<>> /\ s' = s + 1
    <3>1. m_iterators' = SubSeq(m_iterators, 1, 0)  BY <1>0, <1>1, <2>1 DEF Front
    <3>2. SubSeq(m_iterators, 1, 0) = <<>>  BY <1>2
    <3> QED  BY <1>1, <1>10, <3>1, <3>2
  <2>3. Reached(o)'
    <3>1. \A n \in 1..Len(m_entries) : o[n] < s + 1
      <4>1. \A n \in 1..Len(m_entries) : o[n] <= s /\ o[n] \in 1..Len(m_storages)  BY DEF Reached, Origins
      <4> QED  BY <1>2, <1>3, <4>1
    <3>2. \A n \in 1..Len(m_entries) : o[n] <= s + 1
      <4>1. \A n \in 1..Len(m_entries) : o[n] <= s /\ o[n] \in 1..Len(m_storages)  BY DEF Reached, Origins
      <4> QED  BY <1>2, <1>3, <4>1
    <3> QED  BY <1>1, <2>2, <3>1, <3>2 DEF Reached
  <2>4. ASSUME NEW i \in 1..Len(m_storages), i < s + 1, NEW path \in DOMAIN m_storages[i]
        PROVE  Seen(o, i, path)
    <3>1. CASE i < s  BY <3>1 DEF Complete
    <3>2. CASE i = s
      <4>1. \A d \in 1..top : ~AwaitedAt(path, d)  BY <1>4, <2>1 DEF AwaitedAt
      <4> QED  BY <1>0, <1>1, <3>2, <4>1 DEF Complete
    <3> QED  BY <1>3, <2>4, <3>1, <3>2
  <2>5. Complete(o)'  BY <1>1, <1>7, <2>2, <2>4 DEF Complete
  <2> QED  BY <1>7, <1>9, <2>3, <2>5 DEF MirrorInv
<1>11. CASE current # 0
  <2>1. current \in 1..Len(m_entries) /\ s' = s /\ current' = m_entries[current].parent  BY <1>1, <1>2, <1>11
  <2>2. m_entries[current].parent \in Nat /\ m_entries[current].name \in Names
        /\ m_entries[current].parent < current
    <3>1. m_entries[current] \in [name : Names, parent : Nat, storage : Nat]  BY <1>2, <2>1, ElementOfSeq DEF IsTree
    <3> QED  BY <1>2, <2>1, <3>1 DEF IsTree
  <2>3. top > 1
    <3>1. PICK above : above = Path(m_entries[current].parent)  OBVIOUS
    <3>2. m_entries[current].parent \in 0..Len(m_entries)  BY <1>2, <2>1, <2>2
    <3>3. above \in Seq(Names) /\ m_path = Append(above, m_entries[current].name)
      BY <1>2, <2>1, <3>1, <3>2, PathDef DEF Path
    <3>4. Len(m_path) = Len(above) + 1 /\ Len(above) \in Nat  BY <3>3
    <3> QED  BY <1>3, <3>4
  <2>4. m_iterators' # <<>>  BY <1>3, <1>5, <2>3
  <2>5. Reached(o)'
    <3>1. m_entries[current].parent # 0 => o[m_entries[current].parent] = s
      BY <1>1, <1>11, <2>1 DEF Origins, Reached
    <3> QED  BY <1>1, <2>1, <2>4, <3>1 DEF Reached
  <2>6. Complete(o)'
    <3>1. ASSUME NEW path \in DOMAIN m_storages[s], ~Seen(o, s, path)
          PROVE  \E d \in 1..(top - 1) : AwaitedAt(path, d)
      <4>1. PICK d \in 1..top : AwaitedAt(path, d)  BY <1>0, <1>1, <3>1 DEF Complete
      <4>2. d # top  BY <1>4, <4>1 DEF AwaitedAt
      <4>3. d \in 1..(top - 1)  BY <1>3, <4>2
      <4> QED  BY <4>1, <4>3
    <3>2. \A path \in DOMAIN m_storages[here] :
              Seen(o, here, path)' \/ \E d \in 1..Len(m_iterators') : AwaitedAt(path, d)'
      BY <1>0, <1>5, <1>7, <1>8, <3>1
    <3>3. m_storages' = m_storages /\ s' = here /\ s = here  BY <1>0, <1>1, <2>1
    <3>4. \A i \in 1..Len(m_storages) : i < here => \A path \in DOMAIN m_storages[i] : Seen(o, i, path)'
      BY <1>7, <3>3 DEF Complete
    <3> QED  BY <3>2, <3>3, <3>4 DEF Complete
  <2> QED  BY <1>7, <1>9, <2>5, <2>6 DEF MirrorInv
<1> QED  BY <1>10, <1>11

LEMMA MirrorCreate ==
    ASSUME StoragesInv, ScanInv, NEW o, Origins(o), Reached(o), Complete(o), Fresh(o), create_iterator
    PROVE  MirrorInv'
<1>0. PICK here : here = s  OBVIOUS
<1>1. /\ m_iterators = <<>> /\ s <= Len(m_storages) /\ m_iterators' = <<NamesIn(m_storages[s], <<>>)>>
      /\ current' = 0 /\ m_entries' = m_entries /\ m_storages' = m_storages /\ s' = s
  BY DEF create_iterator, Root
<1>2. s \in 1..Len(m_storages) /\ <<>> \in Seq(Names)
  <2>1. Len(m_storages) \in Nat  BY DEF StoragesInv
  <2> QED  BY <1>1, <2>1 DEF ScanInv
<1>3. /\ Names' = Names /\ Origins(o)'
      /\ \A n : Path(n)' = Path(n)
      /\ \A i, path : Seen(o, i, path)' <=> Seen(o, i, path)
  BY <1>1, SameNodes
<1>4. m_iterators' # <<>> /\ Len(m_iterators') = 1 /\ m_iterators'[1] = NamesIn(m_storages[s], <<>>)
  BY <1>1
<1>5. Reached(o)'  BY <1>1, <1>4 DEF Reached
<1>6. ASSUME NEW path \in DOMAIN m_storages[s] PROVE AwaitedAt(path, 1)'
  <2>1. path \in Seq(Names) /\ path # <<>>  BY <1>2 DEF StoragesInv
  <2>2. Len(path) \in Nat /\ 1 <= Len(path) /\ 1 \in 1..Len(path) /\ 0 \in 0..(Len(path) - 1)  BY <2>1
  <2>3. path[1] \in Names  BY <2>1, <2>2, ElementOfSeq
  <2>4. SubSeq(path, 1, 1) \in DOMAIN m_storages[s]  BY <1>2, <2>2, TreePrefix
  <2>5. SubSeq(path, 1, 1) = Append(<<>>, path[1])
    <3>1. 1 \in 0..Len(path)  BY <2>2
    <3>2. SubSeq(path, 1, 1) \in Seq(Names) /\ Len(SubSeq(path, 1, 1)) = 1 /\ \A j \in 1..1 : SubSeq(path, 1, 1)[j] = path[j]
      BY <2>1, <3>1, PrefixPlaces
    <3>3. PICK q : q = SubSeq(path, 1, 1)  OBVIOUS
    <3>4. q \in Seq(Names) /\ Len(q) = Len(<<>>) + 1 /\ q[Len(q)] = path[1] /\ \A j \in 1..Len(<<>>) : q[j] = <<>>[j]
      BY <3>2, <3>3
    <3>5. q = Append(<<>>, path[1])  BY <1>2, <2>3, <3>4, PathSplit
    <3> QED  BY <3>3, <3>5
  <2>6. path[1] \in NamesIn(m_storages[s], <<>>)  BY <1>2, <2>3, <2>4, <2>5, NamesThere
  <2>7. \A j \in 1..(1 - 1) : FALSE  OBVIOUS
  <2> QED  BY <1>4, <2>2, <2>6, <2>7 DEF AwaitedAt
<1>7. Complete(o)'
  <2>1. \A path \in DOMAIN m_storages[s] : \E d \in 1..Len(m_iterators') : AwaitedAt(path, d)'  BY <1>4, <1>6
  <2>2. \A i \in 1..Len(m_storages) : i < s => \A path \in DOMAIN m_storages[i] : Seen(o, i, path)'
    BY <1>3 DEF Complete
  <2> QED  BY <1>1, <2>1, <2>2 DEF Complete
<1>8. Fresh(o)'
  <2> SUFFICES ASSUME NEW d \in 1..1, NEW path \in Seq(Names), AwaitedAt(path, d)', Len(path) = d
               PROVE  path \in DOMAIN m_storages[here] /\ ~Seen(o, here, path)
    BY <1>0, <1>1, <1>3, <1>4 DEF Fresh
  <2>1. d = 1 /\ path[1] \in NamesIn(m_storages[s], <<>>)  BY <1>4 DEF AwaitedAt
  <2>2. path[1] \in Names
    <3>1. 1 \in 1..Len(path)  BY <2>1
    <3> QED  BY <3>1, ElementOfSeq
  <2>3. path = Append(<<>>, path[1])
    <3>1. Len(path) = Len(<<>>) + 1 /\ path[Len(path)] = path[1] /\ \A j \in 1..Len(<<>>) : path[j] = <<>>[j]  BY <2>1
    <3> QED  BY <1>2, <2>2, <3>1, PathSplit
  <2>4. Append(<<>>, path[1]) \in DOMAIN m_storages[s]  BY <1>2, <2>1, <2>2, NamesThere
  <2>5. ~Seen(o, here, path)
    <3>1. \A n \in 1..Len(m_entries) : o[n] < s /\ o[n] \in 1..Len(m_storages)  BY <1>1 DEF Reached, Origins
    <3>2. \A n \in 1..Len(m_entries) : o[n] # s
      <4>1. Len(m_storages) \in Nat  BY DEF StoragesInv
      <4> QED  BY <1>2, <3>1, <4>1
    <3> QED  BY <1>0, <3>2 DEF Seen
  <2> QED  BY <1>0, <2>3, <2>4, <2>5
<1> QED  BY <1>3, <1>5, <1>7, <1>8 DEF MirrorInv

LEMMA MirrorQuiet ==
    ASSUME MirrorInv, UNCHANGED <<m_storages, s, m_iterators, m_path, current, m_entries>>
    PROVE  MirrorInv'
<1>1. PICK o : Origins(o) /\ Reached(o) /\ Complete(o) /\ Fresh(o)  BY DEF MirrorInv
<1>2. /\ Names' = Names /\ Origins(o)'
      /\ \A i, path : Seen(o, i, path)' <=> Seen(o, i, path)
  BY <1>1, SameNodes
<1>3. \A path, d : AwaitedAt(path, d)' <=> AwaitedAt(path, d)  BY DEF AwaitedAt
<1>4. PICK here, iterators : here = s /\ iterators = m_iterators  OBVIOUS
<1>5. Reached(o)'  BY <1>1 DEF Reached
<1>6. Complete(o)'
  <2>1. m_storages' = m_storages /\ s' = here /\ s = here /\ m_iterators' = iterators /\ m_iterators = iterators  BY <1>4
  <2> QED  BY <1>1, <1>2, <1>3, <2>1 DEF Complete
<1>7. Fresh(o)'
  <2>1. m_storages' = m_storages /\ s' = here /\ s = here /\ m_iterators' = iterators /\ m_iterators = iterators  BY <1>4
  <2> QED  BY <1>1, <1>2, <1>3, <2>1 DEF Fresh
<1> QED  BY <1>2, <1>5, <1>6, <1>7 DEF MirrorInv

LEMMA MirrorStep == StoragesInv /\ ScanInv /\ MirrorInv /\ [Next]_vars => MirrorInv'
<1> SUFFICES ASSUME StoragesInv, ScanInv, MirrorInv, [Next]_vars PROVE MirrorInv'  OBVIOUS
<1>1. PICK o : Origins(o) /\ Reached(o) /\ Complete(o) /\ Fresh(o)  BY DEF MirrorInv
<1>2. CASE Building
  <2>1. build_tree  BY <1>2 DEF Building
  <2>2. CASE create_iterator  BY <1>1, <2>2, MirrorCreate
  <2>3. CASE next_end  BY <1>1, <2>3, MirrorEnd
  <2>4. CASE storage_fails \/ tree_built  BY <2>4, MirrorQuiet DEF storage_fails, tree_built
  <2>5. ASSUME NEW name, next_file(name) PROVE MirrorInv'  BY <1>1, <2>5, MirrorFile
  <2>6. ASSUME NEW name, next_directory(name) PROVE MirrorInv'  BY <1>1, <2>6, MirrorDirectory
  <2> QED  BY <2>1, <2>2, <2>3, <2>4, <2>5, <2>6 DEF build_tree
<1>3. CASE ~Building  BY <1>3, OtherSteps, MirrorQuiet
<1> QED  BY <1>2, <1>3
-----------------------------------------------------------------------------
LEMMA NodeFacts ==
    ASSUME ScanInv, NEW n \in 1..Len(m_entries)
    PROVE  /\ Len(m_entries) \in Nat /\ DOMAIN m_entries = 1..Len(m_entries)
           /\ m_entries[n].parent \in 0..Len(m_entries) /\ m_entries[n].parent < n
           /\ m_entries[n].name \in Names
           /\ Path(0) = <<>>
           /\ Path(m_entries[n].parent) \in Seq(Names) /\ Path(n) \in Seq(Names)
           /\ Path(n) = Append(Path(m_entries[n].parent), m_entries[n].name)
<1>1. IsTree(m_entries, Names)  BY DEF ScanInv
<1>2. m_entries \in Seq([name : Names, parent : Nat, storage : Nat]) /\ m_entries[n].parent < n
  BY <1>1 DEF IsTree
<1>3. m_entries[n] \in [name : Names, parent : Nat, storage : Nat]  BY <1>2, ElementOfSeq
<1>4. Len(m_entries) \in Nat /\ DOMAIN m_entries = 1..Len(m_entries)  BY <1>2
<1>5. m_entries[n].parent \in 0..Len(m_entries) /\ n \in 0..Len(m_entries)  BY <1>2, <1>3, <1>4
<1> QED  BY <1>1, <1>2, <1>3, <1>4, <1>5, PathDef DEF Path, Root

\* The parent of a node has the path before its name.
LEMMA ParentPath ==
    ASSUME ScanInv, NEW o, Origins(o), NEW n \in 1..Len(m_entries), NEW above \in Seq(Names), NEW name \in Names,
           Path(n) = Append(above, name)
    PROVE  /\ m_entries[n].name = name /\ Path(m_entries[n].parent) = above
           /\ above = <<>> <=> m_entries[n].parent = 0
           /\ above # <<>> => m_entries[n].parent \in 1..Len(m_entries) /\ o[m_entries[n].parent] = o[n]
<1> DEFINE p == m_entries[n].parent
<1>1. /\ p \in 0..Len(m_entries) /\ m_entries[n].name \in Names /\ Path(0) = <<>>
      /\ Path(p) \in Seq(Names) /\ Path(n) = Append(Path(p), m_entries[n].name) /\ Len(m_entries) \in Nat
  BY NodeFacts
<1>2. Path(p) = above /\ m_entries[n].name = name
  <2>1. Front(Path(n)) = Path(p) /\ Last(Path(n)) = m_entries[n].name  BY <1>1, FrontAppended
  <2>2. Front(Path(n)) = above /\ Last(Path(n)) = name  BY FrontAppended
  <2> QED  BY <2>1, <2>2
<1>3. ASSUME p # 0 PROVE above # <<>> /\ p \in 1..Len(m_entries) /\ o[p] = o[n]
  <2>1. p \in 1..Len(m_entries)  BY <1>1, <1>3
  <2>2. PICK q : q = Path(m_entries[p].parent)  OBVIOUS
  <2>3. q \in Seq(Names) /\ Path(p) = Append(q, m_entries[p].name)  BY <2>1, <2>2, NodeFacts
  <2>4. above # <<>>
    <3>1. Len(Append(q, m_entries[p].name)) = Len(q) + 1 /\ Len(q) \in Nat  BY <2>3
    <3> QED  BY <1>2, <2>3, <3>1
  <2>5. o[p] = o[n]  BY <1>3 DEF Origins
  <2> QED  BY <2>1, <2>4, <2>5
<1> QED  BY <1>1, <1>2, <1>3

\* find gives the first entry of that name.
LEMMA FindFirst ==
    ASSUME ScanInv, NEW n \in 1..Len(m_entries),
           \A k \in 1..Len(m_entries) :
               m_entries[k].parent = m_entries[n].parent /\ m_entries[k].name = m_entries[n].name => n <= k
    PROVE  find(m_entries[n].parent, m_entries[n].name) = n
<1> DEFINE found == {k \in DOMAIN m_entries : m_entries[k].parent = m_entries[n].parent
                                             /\ m_entries[k].name = m_entries[n].name}
<1>1. DOMAIN m_entries = 1..Len(m_entries) /\ Len(m_entries) \in Nat  BY NodeFacts
<1>2. n \in found /\ found \subseteq Nat /\ \A k \in found : n <= k  BY <1>1
<1>3. find(m_entries[n].parent, m_entries[n].name) =
         IF found = {} THEN NoNode ELSE CHOOSE k \in found : \A l \in found : k <= l
  BY DEF find
<1> HIDE DEF found
<1>4. \A k \in found : (\A l \in found : k <= l) => k = n  BY <1>2
<1> QED  BY <1>2, <1>3, <1>4

\* What find gives is such an entry, if there is one.
LEMMA FoundEntry ==
    ASSUME ScanInv, NEW node, NEW name, find(node, name) # NoNode
    PROVE  /\ find(node, name) \in 1..Len(m_entries)
           /\ m_entries[find(node, name)].parent = node /\ m_entries[find(node, name)].name = name
<1> DEFINE found == {k \in DOMAIN m_entries : m_entries[k].parent = node /\ m_entries[k].name = name}
<1>1. DOMAIN m_entries = 1..Len(m_entries) /\ Len(m_entries) \in Nat
  <2>1. m_entries \in Seq([name : Names, parent : Nat, storage : Nat])  BY DEF ScanInv, IsTree
  <2> QED  BY <2>1
<1>2. find(node, name) = IF found = {} THEN NoNode ELSE CHOOSE k \in found : \A l \in found : k <= l
  BY DEF find
<1>3. found \in SUBSET Nat /\ \A k \in found : k \in 1..Len(m_entries) /\ m_entries[k].parent = node /\ m_entries[k].name = name
  BY <1>1
<1> HIDE DEF found
<1>4. found # {}  BY <1>2
<1>5. \E k \in found : \A l \in found : k <= l  BY <1>3, <1>4, LeastNatural
<1>6. find(node, name) \in found  BY <1>2, <1>4, <1>5
<1> QED  BY <1>3, <1>6

\* Below the root an entry is the only one of its name.
LEMMA FindBelow ==
    ASSUME ScanInv, NEW o, Origins(o), NEW n \in 1..Len(m_entries), m_entries[n].parent # 0
    PROVE  find(m_entries[n].parent, m_entries[n].name) = n
<1>1. ASSUME NEW k \in 1..Len(m_entries),
             m_entries[k].parent = m_entries[n].parent, m_entries[k].name = m_entries[n].name
      PROVE  n <= k
  <2>1. Path(k) = Path(n)
    <3>1. /\ Path(n) = Append(Path(m_entries[n].parent), m_entries[n].name)
          /\ Path(k) = Append(Path(m_entries[k].parent), m_entries[k].name)
      BY NodeFacts
    <3> QED  BY <1>1, <3>1
  <2>2. o[k] = o[n]  BY <1>1 DEF Origins
  <2>3. k = n  BY <2>1, <2>2 DEF Origins
  <2> QED  BY <2>3
<1> QED  BY <1>1, FindFirst

\* At the root it is the one of the first storage that has it.
LEMMA FindAtRoot ==
    ASSUME StoragesInv, ScanInv, NEW o, Origins(o), NEW n \in 1..Len(m_entries), m_entries[n].parent = 0,
           \A i \in 1..Len(m_storages) : i < o[n] => Path(n) \notin DOMAIN m_storages[i]
    PROVE  find(0, m_entries[n].name) = n
<1>1. ASSUME NEW k \in 1..Len(m_entries),
             m_entries[k].parent = m_entries[n].parent, m_entries[k].name = m_entries[n].name
      PROVE  n <= k
  <2>1. Path(k) = Path(n)
    <3>1. /\ Path(n) = Append(Path(m_entries[n].parent), m_entries[n].name)
          /\ Path(k) = Append(Path(m_entries[k].parent), m_entries[k].name)
      BY NodeFacts
    <3> QED  BY <1>1, <3>1
  <2>2. o[k] \in 1..Len(m_storages) /\ o[n] \in 1..Len(m_storages) /\ Path(k) \in DOMAIN m_storages[o[k]]
    BY DEF Origins
  <2>3. ~(o[k] < o[n])  BY <2>1, <2>2
  <2>4. CASE o[k] = o[n]
    <3>1. k = n  BY <2>1, <2>4 DEF Origins
    <3> QED  BY <3>1
  <2>5. CASE o[k] # o[n]
    <3>1. ~(o[k] <= o[n])
      <4>1. Len(m_storages) \in Nat  BY DEF StoragesInv
      <4> QED  BY <2>2, <2>3, <2>5, <4>1
    <3>2. ~(k <= n)  BY <3>1 DEF Origins
    <3>3. Len(m_entries) \in Nat  BY NodeFacts
    <3> QED  BY <3>2, <3>3
  <2> QED  BY <2>4, <2>5
<1> QED  BY <1>1, FindFirst
-----------------------------------------------------------------------------
\* The whole of what has been read is in the tree.
Whole(o) == \A i \in 1..Len(m_storages) : \A path \in DOMAIN m_storages[i] : Seen(o, i, path)

\* As many nodes have a path as storages have something there.
LEMMA NodesPerPath ==
    ASSUME StoragesInv, ScanInv, NEW o, Origins(o), Whole(o), NEW path
    PROVE  Cardinality({n \in 1..Len(m_entries) : Path(n) = path})
           = Cardinality({i \in 1..Len(m_storages) : path \in DOMAIN m_storages[i]})
<1> DEFINE N == {n \in 1..Len(m_entries) : Path(n) = path}
           H == {i \in 1..Len(m_storages) : path \in DOMAIN m_storages[i]}
           f == [n \in N |-> o[n]]
<1>1. IsFiniteSet(N)
  <2>1. m_entries \in Seq([name : Names, parent : Nat, storage : Nat])  BY DEF ScanInv, IsTree
  <2>2. Len(m_entries) \in Nat  BY <2>1
  <2>3. IsFiniteSet(1..Len(m_entries))  BY <2>2, FS_Interval
  <2>4. N \in SUBSET (1..Len(m_entries))  OBVIOUS
  <2> HIDE DEF N
  <2> QED  BY <2>3, <2>4, FS_Subset
<1>2. f \in [N -> H]
  <2>1. \A n \in N : o[n] \in H  BY DEF Origins
  <2> HIDE DEF N, H
  <2> QED  BY <2>1
<1>3. \A n, k \in N : f[n] = f[k] => n = k  BY DEF Origins
<1>4. \A i \in H : \E n \in N : f[n] = i
  <2> SUFFICES ASSUME NEW i \in H PROVE \E n \in N : f[n] = i  OBVIOUS
  <2>1. i \in 1..Len(m_storages) /\ path \in DOMAIN m_storages[i]  OBVIOUS
  <2>2. Seen(o, i, path)  BY <2>1 DEF Whole
  <2>3. PICK n \in 1..Len(m_entries) : o[n] = i /\ Path(n) = path  BY <2>2 DEF Seen
  <2>4. n \in N  BY <2>3
  <2> HIDE DEF N, H
  <2> QED  BY <2>3, <2>4
<1>5. f \in Bijection(N, H)
  <2> HIDE DEF f, N, H
  <2> QED  BY <1>2, <1>3, <1>4, Fun_IsBij
<1>6. ExistsBijection(N, H)  BY <1>5 DEF ExistsBijection
<1> HIDE DEF N, H
<1>7. Cardinality(H) = Cardinality(N)  BY <1>1, <1>6, FS_Bijection
<1> QED  BY <1>7 DEF N, H

\* find_file goes from node to node along the path of the first storage that has
\* something at the first name of it.
LEMMA FindFile ==
    ASSUME StoragesInv, ScanInv, NEW o, Origins(o), Whole(o),
           NEW i \in 1..Len(m_storages), NEW path \in DOMAIN m_storages[i],
           \A k \in 1..(i - 1) : SubSeq(path, 1, 1) \notin DOMAIN m_storages[k]
    PROVE  /\ find_file(path) \in 1..Len(m_entries)
           /\ o[find_file(path)] = i /\ Path(find_file(path)) = path
<1> DEFINE D == 0..Len(path)
           IsNode(n, d) == o[n] = i /\ Path(n) = SubSeq(path, 1, d)
           h == [d \in D |-> IF d = 0 THEN 0 ELSE CHOOSE n \in 1..Len(m_entries) : IsNode(n, d)]
           body(f) == [d \in D |-> IF d = 0 THEN Root
                                   ELSE IF f[d - 1] = NoNode THEN NoNode ELSE find(f[d - 1], path[d])]
<1>1. path \in Seq(Names) /\ Len(path) \in Nat \ {0} /\ Len(m_storages) \in Nat
  BY DEF StoragesInv
<1>2. ASSUME NEW d \in 1..Len(path)
      PROVE  h[d] \in 1..Len(m_entries) /\ IsNode(h[d], d)
  <2>1. SubSeq(path, 1, d) \in DOMAIN m_storages[i]  BY TreePrefix
  <2>2. PICK k \in 1..Len(m_entries) : IsNode(k, d)  BY <2>1 DEF Whole, Seen
  <2>3. d \in D /\ d # 0  BY <1>1
  <2>4. h[d] = CHOOSE n \in 1..Len(m_entries) : IsNode(n, d)
    <3> HIDE DEF IsNode, D
    <3> QED  BY <2>3
  <2> HIDE DEF IsNode, h
  <2> QED  BY <2>2, <2>4
<1>3. h[0] = 0
  <2>1. 0 \in D  BY <1>1
  <2> HIDE DEF D
  <2> QED  BY <2>1
<1> HIDE DEF h
<1>4. ASSUME NEW d \in 1..Len(path)
      PROVE  h[d - 1] # NoNode /\ find(h[d - 1], path[d]) = h[d]
  <2>1. PICK n : n = h[d]  OBVIOUS
  <2>2. n \in 1..Len(m_entries) /\ o[n] = i /\ Path(n) = SubSeq(path, 1, d)  BY <1>2, <2>1
  <2>3. PICK b : b = d - 1  OBVIOUS
  <2>4. b \in 0..(Len(path) - 1) /\ b + 1 = d  BY <1>1, <2>3
  <2>5. /\ SubSeq(path, 1, b) \in Seq(Names) /\ path[d] \in Names
        /\ SubSeq(path, 1, d) = Append(SubSeq(path, 1, b), path[d])
    BY <1>1, <2>4, PrefixGrows
  <2>6. PICK above : above = SubSeq(path, 1, b)  OBVIOUS
  <2>7. above \in Seq(Names) /\ Path(n) = Append(above, path[d])  BY <2>2, <2>5, <2>6
  <2>8. /\ m_entries[n].name = path[d] /\ Path(m_entries[n].parent) = above
        /\ above = <<>> <=> m_entries[n].parent = 0
        /\ above # <<>> => m_entries[n].parent \in 1..Len(m_entries) /\ o[m_entries[n].parent] = o[n]
    <3>1. PICK name : name = path[d]  OBVIOUS
    <3>2. name \in Names /\ Path(n) = Append(above, name)  BY <2>5, <2>7, <3>1
    <3>3. /\ m_entries[n].name = name /\ Path(m_entries[n].parent) = above
          /\ above = <<>> <=> m_entries[n].parent = 0
          /\ above # <<>> => m_entries[n].parent \in 1..Len(m_entries) /\ o[m_entries[n].parent] = o[n]
      BY <2>2, <2>7, <3>2, ParentPath
    <3> QED  BY <3>1, <3>3
  <2>9. b \in 0..Len(path)  BY <1>1, <2>4
  <2>10. Len(above) = b  BY <1>1, <2>6, <2>9, PrefixPlaces
  <2>11. CASE d = 1
    <3>1. b = 0  BY <2>3, <2>11
    <3>2. above = <<>>  BY <2>7, <2>10, <3>1
    <3>3. m_entries[n].parent = 0  BY <2>8, <3>2
    <3>4. \A k \in 1..Len(m_storages) : k < o[n] => Path(n) \notin DOMAIN m_storages[k]
      <4>1. \A k \in 1..Len(m_storages) : k < i => k \in 1..(i - 1)  BY <1>1
      <4> QED  BY <2>2, <2>11, <4>1
    <3>5. find(0, path[d]) = n  BY <2>2, <2>8, <3>3, <3>4, FindAtRoot
    <3>6. h[d - 1] = 0  BY <1>3, <2>3, <3>1
    <3> QED  BY <2>1, <3>5, <3>6 DEF NoNode
  <2>12. CASE d # 1
    <3>1. b # 0 /\ b \in 1..Len(path)  BY <1>1, <2>3, <2>4, <2>12
    <3>2. above # <<>>  BY <2>10, <3>1
    <3>3. m_entries[n].parent \in 1..Len(m_entries) /\ o[m_entries[n].parent] = i  BY <2>2, <2>8, <3>2
    <3>4. h[b] \in 1..Len(m_entries) /\ o[h[b]] = i /\ Path(h[b]) = above  BY <1>2, <2>6, <3>1
    <3>5. m_entries[n].parent = h[b]  BY <2>8, <3>3, <3>4 DEF Origins
    <3>6. Len(m_entries) \in Nat  BY <2>2, NodeFacts
    <3>7. h[b] # 0 /\ h[b] # -1  BY <3>4, <3>6
    <3>8. find(m_entries[n].parent, m_entries[n].name) = n  BY <2>2, <3>5, <3>7, FindBelow
    <3> QED  BY <2>1, <2>3, <2>8, <3>5, <3>7, <3>8 DEF NoNode
  <2> QED  BY <2>11, <2>12
<1> HIDE DEF IsNode
<1>5. h = body(h)
  <2>1. \A d \in D : h[d] = IF d = 0 THEN Root
                            ELSE IF h[d - 1] = NoNode THEN NoNode ELSE find(h[d - 1], path[d])
    <3> SUFFICES ASSUME NEW d \in D
                 PROVE  h[d] = IF d = 0 THEN Root
                               ELSE IF h[d - 1] = NoNode THEN NoNode ELSE find(h[d - 1], path[d])
      OBVIOUS
    <3>1. CASE d = 0  BY <1>3, <3>1 DEF Root
    <3>2. CASE d # 0
      <4>1. d \in 1..Len(path)  BY <1>1, <3>2
      <4> QED  BY <1>4, <3>2, <4>1 DEF Root
    <3> QED  BY <3>1, <3>2
  <2>2. h = [d \in D |-> h[d]]  BY DEF h
  <2> HIDE DEF D
  <2> QED  BY <2>1, <2>2
<1> DEFINE node == CHOOSE f : f = body(f)
<1>6. node = body(node)
  <2> HIDE DEF body
  <2> QED  BY <1>5
<1>7. find_file(path) = node[Len(path)]  BY DEF find_file
<1> HIDE DEF node
<1>8. 0..Len(path) \subseteq {d \in D : node[d] = h[d]}
  <2> DEFINE S == {d \in D : node[d] = h[d]}
  <2>1. 0 \in S
    <3>1. 0 \in D  BY <1>1
    <3>2. node[0] = 0
      <4> HIDE DEF D
      <4> QED  BY <1>6, <3>1 DEF Root
    <3> HIDE DEF D
    <3> QED  BY <1>3, <3>1, <3>2
  <2>2. ASSUME NEW d \in 0..(Len(path) - 1), d \in S PROVE d + 1 \in S
    <3>1. PICK e : e = d + 1  OBVIOUS
    <3>2. e \in D /\ e \in 1..Len(path) /\ e - 1 = d /\ e # 0  BY <1>1, <3>1
    <3>3. node[e] = IF node[d] = NoNode THEN NoNode ELSE find(node[d], path[e])
      <4> HIDE DEF D
      <4> QED  BY <1>6, <3>2 DEF Root
    <3>4. node[d] = h[d]  BY <2>2
    <3>5. h[d] # NoNode /\ find(h[d], path[e]) = h[e]  BY <1>4, <3>2
    <3>6. node[e] = h[e]  BY <3>3, <3>4, <3>5
    <3> QED  BY <3>1, <3>2, <3>6
  <2>3. PICK m : m = Len(path)  OBVIOUS
  <2>4. m \in Nat /\ \A d \in 0..m-1 : d \in S => d + 1 \in S  BY <1>1, <2>2, <2>3
  <2> HIDE DEF S
  <2>5. 0..m \subseteq S  BY <2>1, <2>4, BoundedInduction
  <2> QED  BY <2>3, <2>5 DEF S
<1>9. Len(path) \in 1..Len(path) /\ Len(path) \in 0..Len(path)  BY <1>1
<1>10. find_file(path) = h[Len(path)]  BY <1>7, <1>8, <1>9
<1>11. SubSeq(path, 1, Len(path)) = path  BY <1>1, SubSeqFull
<1> QED  BY <1>2, <1>9, <1>10, <1>11 DEF IsNode

LEMMA TreeWhole ==
    ASSUME StoragesInv, ScanInv, stage \notin {"building", "io_error"}, NEW o, Complete(o)
    PROVE  Whole(o)
<1>1. s = Len(m_storages) + 1 /\ Len(m_storages) \in Nat  BY DEF ScanInv, StoragesInv
<1>2. \A i \in 1..Len(m_storages) : i < s  BY <1>1
<1> QED  BY <1>2 DEF Whole, Complete

LEMMA Mirrored == StoragesInv /\ ScanInv /\ MirrorInv => TreeMirrorsDisk
<1> DEFINE NodesAt(path) == {n \in DOMAIN m_entries : generate_path(n) = path}
           Holders(path) == {i \in DOMAIN m_storages : path \in DOMAIN m_storages[i]}
<1> SUFFICES ASSUME StoragesInv, ScanInv, MirrorInv, stage \notin {"building", "io_error"}
             PROVE  /\ \A n \in DOMAIN m_entries : Holders(generate_path(n)) # {}
                    /\ \A i \in DOMAIN m_storages : \A path \in DOMAIN m_storages[i] :
                          LET isFile == m_storages[i][path] # Directory
                          IN  /\ Cardinality(NodesAt(path)) = Cardinality(Holders(path))
                              /\ isFile => \E n \in NodesAt(path) : m_entries[n].storage = i
                              /\ (\A k \in 1..(i - 1) : SubSeq(path, 1, 1) \notin DOMAIN m_storages[k]) =>
                                    /\ find_file(path) \in NodesAt(path)
                                    /\ m_entries[find_file(path)].storage = IF isFile THEN i ELSE 0
  BY DEF TreeMirrorsDisk
<1>1. PICK o : Origins(o) /\ Reached(o) /\ Complete(o) /\ Fresh(o)  BY DEF MirrorInv
<1>2. Whole(o)  BY <1>1, TreeWhole
<1>3. DOMAIN m_entries = 1..Len(m_entries) /\ DOMAIN m_storages = 1..Len(m_storages)
  <2>1. m_entries \in Seq([name : Names, parent : Nat, storage : Nat])  BY DEF ScanInv, IsTree
  <2> QED  BY <2>1 DEF StoragesInv
<1>4. /\ \A path : NodesAt(path) = {n \in 1..Len(m_entries) : Path(n) = path}
      /\ \A path : Holders(path) = {i \in 1..Len(m_storages) : path \in DOMAIN m_storages[i]}
  BY <1>3, PathOfEntries DEF Path
<1> HIDE DEF NodesAt, Holders
<1>5. ASSUME NEW n \in DOMAIN m_entries PROVE Holders(generate_path(n)) # {}
  <2>1. n \in 1..Len(m_entries) /\ generate_path(n) = Path(n)  BY <1>3, PathOfEntries DEF Path
  <2>2. o[n] \in Holders(Path(n))  BY <1>1, <1>4, <2>1 DEF Origins
  <2> QED  BY <2>1, <2>2
<1>6. ASSUME NEW i \in 1..Len(m_storages), NEW path \in DOMAIN m_storages[i]
      PROVE  /\ Cardinality(NodesAt(path)) = Cardinality(Holders(path))
             /\ m_storages[i][path] # Directory => \E n \in NodesAt(path) : m_entries[n].storage = i
             /\ (\A k \in 1..(i - 1) : SubSeq(path, 1, 1) \notin DOMAIN m_storages[k]) =>
                   /\ find_file(path) \in NodesAt(path)
                   /\ m_entries[find_file(path)].storage = IF m_storages[i][path] # Directory THEN i ELSE 0
  <2>1. Cardinality(NodesAt(path)) = Cardinality(Holders(path))  BY <1>1, <1>2, <1>4, NodesPerPath
  <2>2. ASSUME m_storages[i][path] # Directory PROVE \E n \in NodesAt(path) : m_entries[n].storage = i
    <3>1. PICK n \in 1..Len(m_entries) : o[n] = i /\ Path(n) = path  BY <1>2 DEF Whole, Seen
    <3>2. m_entries[n].storage = i  BY <1>1, <2>2, <3>1 DEF Origins
    <3> QED  BY <1>4, <3>1, <3>2
  <2>3. ASSUME \A k \in 1..(i - 1) : SubSeq(path, 1, 1) \notin DOMAIN m_storages[k]
        PROVE  /\ find_file(path) \in NodesAt(path)
               /\ m_entries[find_file(path)].storage = IF m_storages[i][path] # Directory THEN i ELSE 0
    <3>1. PICK n : n = find_file(path)  OBVIOUS
    <3>2. n \in 1..Len(m_entries) /\ o[n] = i /\ Path(n) = path  BY <1>1, <1>2, <2>3, <3>1, FindFile
    <3>3. m_entries[n].storage = IF m_storages[i][path] = Directory THEN 0 ELSE i  BY <1>1, <3>2 DEF Origins
    <3>4. n \in NodesAt(path)  BY <1>4, <3>2
    <3> QED  BY <3>1, <3>3, <3>4
  <2> QED  BY <2>1, <2>2, <2>3
<1> QED  BY <1>3, <1>5, <1>6

\* Whatever the directories are, the tree that is built has exactly their paths, and
\* find_file goes by the first storage (build_tree and find_file).
THEOREM ModelsMirrorDisk == Spec => []TreeMirrorsDisk
<1>1. Init => StoragesInv /\ ScanInv /\ MirrorInv  BY StoragesInit, ScanInit, MirrorInit DEF Init
<1>2. StoragesInv /\ ScanInv /\ MirrorInv /\ [Next]_vars => (StoragesInv /\ ScanInv /\ MirrorInv)'
  BY ScanStep, MirrorStep
<1> QED  BY <1>1, <1>2, Mirrored, PTL DEF Spec
-----------------------------------------------------------------------------
\* What LoadsWhatIsThere says of ids.
IsModelOf(id, path) ==
    /\ Len(path) = 4 /\ path[1] = id[1] /\ path[2] = "models" /\ path[3] = "block"
    /\ path[4] \in DOMAIN BaseName /\ BaseName[path[4]] = id[2]

Contents(id) ==
    UNION {{m_storages[i][path] : path \in {p \in DOMAIN m_storages[i] : IsModelOf(id, p)}} :
              i \in DOMAIN m_storages}

\* Every step on the way to a path has a node, which find gives from the one before.
OnTheWay(o, i, path, d, b, n) ==
    /\ m_entries[n].name = path[d]
    /\ d = 1 => m_entries[n].parent = 0
    /\ d # 1 => /\ m_entries[n].parent \in 1..Len(m_entries) /\ o[m_entries[n].parent] = i
                /\ Path(m_entries[n].parent) = SubSeq(path, 1, b)
                /\ find(m_entries[n].parent, path[d]) = n

LEMMA NodeOnTheWay ==
    ASSUME StoragesInv, ScanInv, NEW o, Origins(o), Whole(o),
           NEW i \in 1..Len(m_storages), NEW path \in DOMAIN m_storages[i],
           NEW n \in 1..Len(m_entries), NEW d \in 1..Len(path), NEW b, b = d - 1,
           o[n] = i, Path(n) = SubSeq(path, 1, d)
    PROVE  OnTheWay(o, i, path, d, b, n)
<1>1. path \in Seq(Names) /\ Len(path) \in Nat  BY DEF StoragesInv
<1>2. b \in 0..(Len(path) - 1) /\ b \in 0..Len(path) /\ b + 1 = d  BY <1>1
<1>3. /\ SubSeq(path, 1, b) \in Seq(Names) /\ path[d] \in Names
      /\ SubSeq(path, 1, d) = Append(SubSeq(path, 1, b), path[d])
  BY <1>1, <1>2, PrefixGrows
<1>4. PICK above, name : above = SubSeq(path, 1, b) /\ name = path[d]  OBVIOUS
<1>5. above \in Seq(Names) /\ name \in Names /\ Path(n) = Append(above, name)  BY <1>3, <1>4
<1>6. /\ m_entries[n].name = name /\ Path(m_entries[n].parent) = above
      /\ above = <<>> <=> m_entries[n].parent = 0
      /\ above # <<>> => m_entries[n].parent \in 1..Len(m_entries) /\ o[m_entries[n].parent] = o[n]
  <2>1. Path(n) = Append(above, name)  BY <1>5
  <2>2. above \in Seq(Names) /\ name \in Names  BY <1>5
  <2>3. \A a \in Seq(Names), e \in Names :
           Path(n) = Append(a, e) =>
               /\ m_entries[n].name = e /\ Path(m_entries[n].parent) = a
               /\ a = <<>> <=> m_entries[n].parent = 0
               /\ a # <<>> => m_entries[n].parent \in 1..Len(m_entries) /\ o[m_entries[n].parent] = o[n]
    BY ParentPath
  <2> QED  BY <2>1, <2>2, <2>3, Zenon
<1>7. Len(above) = b  BY <1>1, <1>2, <1>4, PrefixPlaces
<1>8. ASSUME d = 1 PROVE m_entries[n].parent = 0  BY <1>5, <1>6, <1>7, <1>8
<1>9. ASSUME d # 1
      PROVE  /\ m_entries[n].parent \in 1..Len(m_entries) /\ o[m_entries[n].parent] = i
             /\ find(m_entries[n].parent, name) = n
  <2>1. above # <<>>  BY <1>2, <1>7, <1>9
  <2>2. m_entries[n].parent # 0  BY <1>6, <2>1
  <2>3. find(m_entries[n].parent, m_entries[n].name) = n  BY <2>2, FindBelow
  <2> QED  BY <1>6, <2>1, <2>3
<1> QED  BY <1>4, <1>6, <1>8, <1>9 DEF OnTheWay

\* The file of a model has a node load takes for that model.
LEMMA ModelNode ==
    ASSUME StoragesInv, ScanInv, NEW o, Origins(o), Whole(o), NEW id \in Id,
           NEW i \in 1..Len(m_storages), NEW path \in DOMAIN m_storages[i], IsModelOf(id, path)
    PROVE  \E n \in 1..Len(m_entries) : IsBlockModel(n) /\ ModelId(n) = id
<1>1. /\ path \in Seq(Names) /\ Len(path) = 4 /\ path[1] = id[1] /\ path[2] = "models" /\ path[3] = "block"
      /\ path[4] \in DOMAIN BaseName /\ BaseName[path[4]] = id[2]
  BY DEF StoragesInv, IsModelOf
<1>2. PICK n \in 1..Len(m_entries) : o[n] = i /\ Path(n) = path  BY DEF Whole, Seen
<1>3. SubSeq(path, 1, 4) = path
  <2>1. SubSeq(path, 1, Len(path)) = path  BY <1>1, SubSeqFull
  <2> QED  BY <1>1, <2>1
<1>11. PICK block : block = m_entries[n].parent  OBVIOUS
<1>12. PICK models : models = m_entries[block].parent  OBVIOUS
<1>13. PICK namespace : namespace = m_entries[models].parent  OBVIOUS
<1>4. /\ m_entries[n].name = path[4] /\ block \in 1..Len(m_entries) /\ o[block] = i
      /\ Path(block) = SubSeq(path, 1, 3)
  <2>1. PICK d, b, k : d = 4 /\ b = 3 /\ k = n  BY Zenon
  <2>2. /\ d \in 1..Len(path) /\ b = d - 1 /\ k \in 1..Len(m_entries) /\ o[k] = i
        /\ Path(k) = SubSeq(path, 1, d)
    BY <1>1, <1>2, <1>3, <2>1
  <2>3. OnTheWay(o, i, path, d, b, k)  BY <2>2, NodeOnTheWay, Zenon
  <2> QED  BY <1>1, <1>11, <2>1, <2>3 DEF OnTheWay
<1>5. /\ models \in 1..Len(m_entries) /\ o[models] = i /\ Path(models) = SubSeq(path, 1, 2)
      /\ find(models, "block") = block
  <2>1. PICK d, b, k : d = 3 /\ b = 2 /\ k = block  BY Zenon
  <2>2. /\ d \in 1..Len(path) /\ b = d - 1 /\ k \in 1..Len(m_entries) /\ o[k] = i
        /\ Path(k) = SubSeq(path, 1, d)
    BY <1>1, <1>4, <2>1
  <2>3. OnTheWay(o, i, path, d, b, k)  BY <2>2, NodeOnTheWay, Zenon
  <2> QED  BY <1>1, <1>12, <2>1, <2>3 DEF OnTheWay
<1>6. /\ namespace \in 1..Len(m_entries) /\ o[namespace] = i /\ Path(namespace) = SubSeq(path, 1, 1)
      /\ find(namespace, "models") = models
  <2>1. PICK d, b, k : d = 2 /\ b = 1 /\ k = models  BY Zenon
  <2>2. /\ d \in 1..Len(path) /\ b = d - 1 /\ k \in 1..Len(m_entries) /\ o[k] = i
        /\ Path(k) = SubSeq(path, 1, d)
    BY <1>1, <1>5, <2>1
  <2>3. OnTheWay(o, i, path, d, b, k)  BY <2>2, NodeOnTheWay, Zenon
  <2> QED  BY <1>1, <1>13, <2>1, <2>3 DEF OnTheWay
<1>7. m_entries[namespace].parent = 0
  <2>1. PICK d, b, k : d = 1 /\ b = 0 /\ k = namespace  BY Zenon
  <2>2. /\ d \in 1..Len(path) /\ b = d - 1 /\ k \in 1..Len(m_entries) /\ o[k] = i
        /\ Path(k) = SubSeq(path, 1, d)
    BY <1>1, <1>6, <2>1
  <2>3. OnTheWay(o, i, path, d, b, k)  BY <2>2, NodeOnTheWay, Zenon
  <2> QED  BY <1>1, <2>1, <2>3 DEF OnTheWay
<1>8. DOMAIN m_entries = 1..Len(m_entries) /\ Len(m_entries) \in Nat  BY <1>2, NodeFacts
<1>9. IsBlockModel(n)
  <2>1. m_entries[n].name \in DOMAIN BaseName  BY <1>1, <1>4
  <2>2. models # NoNode  BY <1>5, <1>8 DEF NoNode
  <2>3. m_entries[n].parent = find(find(namespace, "models"), "block")  BY <1>5, <1>6, <1>11
  <2>4. m_entries[namespace].parent = Root /\ namespace \in DOMAIN m_entries  BY <1>6, <1>7, <1>8 DEF Root
  <2> QED  BY <1>6, <2>1, <2>2, <2>3, <2>4 DEF IsBlockModel
<1>10. ModelId(n) = id
  <2>1. generate_path(n) = path  BY <1>2, PathOfEntries DEF Path
  <2>2. id = <<id[1], id[2]>>  BY ModelsAssumption
  <2> QED  BY <1>1, <1>4, <2>1, <2>2 DEF ModelId
<1> QED  BY <1>9, <1>10

\* A node load takes for a model has the path of its file.
LEMMA ModelFileOf ==
    ASSUME StoragesInv, ScanInv, NEW o, Origins(o), NEW n \in 1..Len(m_entries), IsBlockModel(n)
    PROVE  \E i \in DOMAIN m_storages : \E path \in DOMAIN m_storages[i] :
              /\ IsModelOf(ModelId(n), path)
              /\ read_file(n) = IF m_storages[i][path] = Directory THEN Nothing ELSE m_storages[i][path]
<1>1. PICK namespace \in DOMAIN m_entries :
         /\ m_entries[namespace].parent = Root
         /\ find(namespace, "models") # NoNode
         /\ m_entries[n].parent = find(find(namespace, "models"), "block")
  BY DEF IsBlockModel
<1>2. PICK models, block : models = find(namespace, "models") /\ block = find(models, "block")  OBVIOUS
<1>3. /\ DOMAIN m_entries = 1..Len(m_entries) /\ Len(m_entries) \in Nat
      /\ m_entries[n].parent \in 0..Len(m_entries) /\ m_entries[n].name \in Names
      /\ Path(n) = Append(Path(m_entries[n].parent), m_entries[n].name)
  BY NodeFacts
<1>4. models \in 1..Len(m_entries) /\ m_entries[models].parent = namespace /\ m_entries[models].name = "models"
  BY <1>1, <1>2, FoundEntry
<1>5. block # NoNode /\ m_entries[n].parent = block
  <2>1. m_entries[n].parent = block  BY <1>1, <1>2
  <2> QED  BY <1>3, <2>1 DEF NoNode
<1>6. block \in 1..Len(m_entries) /\ m_entries[block].parent = models /\ m_entries[block].name = "block"
  BY <1>2, <1>5, FoundEntry
<1>7. PICK p0, p1, p2, p3, p4, first, last :
         /\ p0 = Path(0) /\ p1 = Path(namespace) /\ p2 = Path(models) /\ p3 = Path(block) /\ p4 = Path(n)
         /\ first = m_entries[namespace].name /\ last = m_entries[n].name
  OBVIOUS
<1>8. p0 = <<>> /\ p1 = Append(p0, first) /\ first \in Names  BY <1>1, <1>3, <1>7, NodeFacts DEF Root
<1>9. p2 = Append(p1, "models") /\ "models" \in Names /\ p1 \in Seq(Names)  BY <1>4, <1>7, NodeFacts
<1>10. p3 = Append(p2, "block") /\ "block" \in Names /\ p2 \in Seq(Names)  BY <1>6, <1>7, NodeFacts
<1>11. p4 = Append(p3, last) /\ last \in Names /\ p3 \in Seq(Names)  BY <1>3, <1>5, <1>7, NodeFacts
<1>12. Len(p1) = 1 /\ p1[1] = first  BY <1>8
<1>13. Len(p2) = 2 /\ p2[1] = first /\ p2[2] = "models"
  <2>1. PICK name \in Names : name = "models"  BY <1>9
  <2>2. p2 = Append(p1, name)  BY <1>9, <2>1
  <2>3. Len(p2) = Len(p1) + 1 /\ (\A j \in 1..Len(p1) : p2[j] = p1[j]) /\ p2[Len(p1) + 1] = name
    BY <1>9, <2>2, AppendProperties
  <2> QED  BY <1>12, <2>1, <2>3
<1>14. Len(p3) = 3 /\ p3[1] = first /\ p3[2] = "models" /\ p3[3] = "block"
  <2>1. PICK name \in Names : name = "block"  BY <1>10
  <2>2. p3 = Append(p2, name)  BY <1>10, <2>1
  <2>3. Len(p3) = Len(p2) + 1 /\ (\A j \in 1..Len(p2) : p3[j] = p2[j]) /\ p3[Len(p2) + 1] = name
    BY <1>10, <2>2, AppendProperties
  <2> QED  BY <1>13, <2>1, <2>3
<1>15. Len(p4) = 4 /\ p4[1] = first /\ p4[2] = "models" /\ p4[3] = "block" /\ p4[4] = last
  <2>1. Len(p4) = Len(p3) + 1 /\ (\A j \in 1..Len(p3) : p4[j] = p3[j]) /\ p4[Len(p3) + 1] = last
    BY <1>11, AppendProperties
  <2> QED  BY <1>14, <2>1
<1>16. last \in DOMAIN BaseName  BY <1>7 DEF IsBlockModel
<1>17. generate_path(n) = p4  BY <1>7, PathOfEntries DEF Path
<1>18. ModelId(n) = <<first, BaseName[last]>>  BY <1>7, <1>15, <1>17 DEF ModelId
<1>19. IsModelOf(ModelId(n), p4)  BY <1>15, <1>16, <1>18 DEF IsModelOf
<1>20. PICK i : i = o[n]  OBVIOUS
<1>21. i \in 1..Len(m_storages) /\ p4 \in DOMAIN m_storages[i]
       /\ m_entries[n].storage = IF m_storages[i][p4] = Directory THEN 0 ELSE i
  BY <1>7, <1>20 DEF Origins
<1>22. DOMAIN m_storages = 1..Len(m_storages) /\ i # 0
  <2>1. DOMAIN m_storages = 1..Len(m_storages) /\ Len(m_storages) \in Nat  BY DEF StoragesInv
  <2> QED  BY <1>21, <2>1
<1>23. read_file(n) = IF m_storages[i][p4] = Directory THEN Nothing ELSE m_storages[i][p4]
  BY <1>17, <1>21, <1>22 DEF read_file
<1> QED  BY <1>19, <1>21, <1>22, <1>23

\* The nodes load has come to.
LoadedInv ==
    /\ m_next \in Nat \ {0}
    /\ stage = "building" => m_next = 1 /\ DOMAIN m_resources = {}
    /\ stage \in {"finalizing", "running", "overflow"} => m_next > Len(m_entries)
    /\ \A id \in DOMAIN m_resources : m_resources[id].file \in Contents(id)
    /\ stage # "bad_model" =>
          \A n \in 1..Len(m_entries) : n < m_next /\ IsBlockModel(n) => ModelId(n) \in DOMAIN m_resources
    /\ stage = "bad_model" => \E id \in Id : \E content \in Contents(id) : content \notin ModelFile

LEMMA LoadedInit == Init => LoadedInv
BY DEF Init, VfsInit, LoadedInv

\* What depends on the tree alone.
LEMMA SameTree ==
    ASSUME m_entries' = m_entries, m_storages' = m_storages
    PROVE  /\ \A id : Contents(id)' = Contents(id)
           /\ \A n : IsBlockModel(n)' = IsBlockModel(n) /\ ModelId(n)' = ModelId(n)
<1>1. \A id : Contents(id)' = Contents(id)  BY DEF Contents
<1>2. \A n : generate_path(n)' = generate_path(n)  BY DEF generate_path
<1>3. \A node, name : find(node, name)' = find(node, name)  BY DEF find
<1>4. \A n : ModelId(n)' = ModelId(n)  BY <1>2 DEF ModelId
<1>5. \A n : IsBlockModel(n)' = IsBlockModel(n)  BY <1>3 DEF IsBlockModel
<1> QED  BY <1>1, <1>4, <1>5

\* Steps that leave the tree, and the models' files, alone.
LEMMA LoadedQuiet ==
    ASSUME LoadedInv, m_entries' = m_entries, m_storages' = m_storages, m_next' = m_next,
           DOMAIN m_resources' = DOMAIN m_resources,
           \A id \in DOMAIN m_resources : m_resources'[id].file = m_resources[id].file,
           stage' = "building" => stage = "building",
           stage' \in {"finalizing", "running", "overflow"} => m_next > Len(m_entries),
           stage' = "bad_model" <=> stage = "bad_model"
    PROVE  LoadedInv'
<1>1. /\ \A id : Contents(id)' = Contents(id)
      /\ \A n : IsBlockModel(n)' = IsBlockModel(n) /\ ModelId(n)' = ModelId(n)
  BY SameTree
<1>2. /\ m_next' \in Nat \ {0}
      /\ stage' = "building" => m_next' = 1 /\ DOMAIN m_resources' = {}
      /\ stage' \in {"finalizing", "running", "overflow"} => m_next' > Len(m_entries')
  BY DEF LoadedInv
<1>3. \A id \in DOMAIN m_resources' : m_resources'[id].file \in Contents(id)'  BY <1>1 DEF LoadedInv
<1>4. stage' # "bad_model" =>
         \A n \in 1..Len(m_entries') : n < m_next' /\ IsBlockModel(n)' => ModelId(n)' \in DOMAIN m_resources'
  BY <1>1 DEF LoadedInv
<1>5. stage' = "bad_model" => \E id \in Id : \E content \in Contents(id)' : content \notin ModelFile
  BY <1>1 DEF LoadedInv
<1> QED  BY <1>2, <1>3, <1>4, <1>5 DEF LoadedInv

LEMMA LoadedBuild == LoadedInv /\ Building => LoadedInv'
<1> SUFFICES ASSUME LoadedInv, Building PROVE LoadedInv'  OBVIOUS
<1>1. /\ stage = "building" /\ stage' \in {"building", "io_error", "loading"}
      /\ m_next' = m_next /\ m_resources' = m_resources
  BY DEF Building, build_tree, create_iterator, next_end, storage_fails, tree_built, next_file, next_directory, Entry
<1>2. m_next' = 1 /\ DOMAIN m_resources' = {}  BY <1>1 DEF LoadedInv
<1>3. \A n \in 1..Len(m_entries') : ~(n < m_next')  BY <1>2
<1> QED  BY <1>1, <1>2, <1>3 DEF LoadedInv

LEMMA LoadedSkip == LoadedInv /\ skip_node => LoadedInv'
<1> SUFFICES ASSUME LoadedInv, skip_node PROVE LoadedInv'  OBVIOUS
<1>1. /\ stage = "loading" /\ stage' = stage /\ ~IsBlockModel(m_next) /\ m_next' = m_next + 1
      /\ m_entries' = m_entries /\ m_storages' = m_storages /\ m_resources' = m_resources
  BY DEF skip_node, vfsVars
<1>2. /\ \A id : Contents(id)' = Contents(id)
      /\ \A n : IsBlockModel(n)' = IsBlockModel(n) /\ ModelId(n)' = ModelId(n)
  BY <1>1, SameTree
<1>3. \A n \in 1..Len(m_entries') : n < m_next' /\ IsBlockModel(n)' => ModelId(n)' \in DOMAIN m_resources'
  <2> SUFFICES ASSUME NEW n \in 1..Len(m_entries), n < m_next + 1, IsBlockModel(n)
               PROVE  ModelId(n) \in DOMAIN m_resources
    BY <1>1, <1>2
  <2>1. n # m_next  BY <1>1
  <2>2. n < m_next
    <3>1. m_next \in Nat  BY DEF LoadedInv
    <3>2. n \in Int  OBVIOUS
    <3> QED  BY <2>1, <3>1, <3>2
  <2> QED  BY <1>1, <2>2 DEF LoadedInv
<1>4. m_next' \in Nat \ {0}  BY <1>1 DEF LoadedInv
<1>5. \A id \in DOMAIN m_resources' : m_resources'[id].file \in Contents(id)'  BY <1>1, <1>2 DEF LoadedInv
<1> QED  BY <1>1, <1>3, <1>4, <1>5 DEF LoadedInv

LEMMA LoadedModel ==
    ASSUME StoragesInv, ScanInv, MirrorInv, LoadedInv, NEW id \in Id, load_model(id)
    PROVE  LoadedInv'
<1>1. /\ stage = "loading" /\ m_next <= Len(m_entries) /\ IsBlockModel(m_next) /\ id = ModelId(m_next)
      /\ m_next' = m_next + 1 /\ m_entries' = m_entries /\ m_storages' = m_storages
  BY DEF load_model, TreeUnchanged
<1>2. /\ \A i : Contents(i)' = Contents(i)
      /\ \A n : IsBlockModel(n)' = IsBlockModel(n) /\ ModelId(n)' = ModelId(n)
  BY <1>1, SameTree
<1>3. PICK here : here = m_next  OBVIOUS
<1>4. here \in 1..Len(m_entries) /\ m_next \in Nat \ {0} /\ Len(m_entries) \in Nat
  <2>1. m_next \in Nat \ {0} /\ m_entries \in Seq([name : Names, parent : Nat, storage : Nat])
    BY DEF LoadedInv, ScanInv, IsTree
  <2>2. Len(m_entries) \in Nat  BY <2>1
  <2> QED  BY <1>1, <1>3, <2>1, <2>2
<1>5. PICK content \in Contents(id) : read_file(here) = IF content = Directory THEN Nothing ELSE content
  <2>1. PICK o : Origins(o)  BY DEF MirrorInv
  <2>2. PICK i \in DOMAIN m_storages : \E path \in DOMAIN m_storages[i] :
              /\ IsModelOf(ModelId(here), path)
              /\ read_file(here) = IF m_storages[i][path] = Directory THEN Nothing ELSE m_storages[i][path]
    BY <1>1, <1>3, <1>4, <2>1, ModelFileOf
  <2>3. PICK path \in DOMAIN m_storages[i] :
              /\ IsModelOf(id, path)
              /\ read_file(here) = IF m_storages[i][path] = Directory THEN Nothing ELSE m_storages[i][path]
    BY <1>1, <1>3, <2>2
  <2>4. m_storages[i][path] \in Contents(id)  BY <2>3 DEF Contents
  <2> QED  BY <2>3, <2>4
<1>6. m_next' \in Nat \ {0}  BY <1>1, <1>4
<1>7. CASE /\ read_file(m_next) \in ModelFile
           /\ m_resources' = [i \in DOMAIN m_resources \cup {id} |->
                                 IF i = id THEN Parsed(id, read_file(m_next)) ELSE m_resources[i]]
           /\ stage' = stage
  <2>1. read_file(here) \in ModelFile  BY <1>3, <1>7
  <2>2. read_file(here) \in Contents(id)  BY <1>5, <2>1, ModelsAssumption
  <2>3. DOMAIN m_resources' = DOMAIN m_resources \cup {id} /\ m_resources'[id].file = read_file(here)
    BY <1>3, <1>7 DEF Parsed
  <2>4. \A i \in DOMAIN m_resources' : m_resources'[i].file \in Contents(i)'
    <3> SUFFICES ASSUME NEW i \in DOMAIN m_resources' PROVE m_resources'[i].file \in Contents(i)  BY <1>2
    <3>1. CASE i = id  BY <2>2, <2>3, <3>1
    <3>2. CASE i # id
      <4>1. i \in DOMAIN m_resources  BY <2>3, <3>2
      <4>2. m_resources'[i] = m_resources[i]  BY <1>7, <3>2, <4>1
      <4> QED  BY <4>1, <4>2 DEF LoadedInv
    <3> QED  BY <3>1, <3>2
  <2>5. \A n \in 1..Len(m_entries') : n < m_next' /\ IsBlockModel(n)' => ModelId(n)' \in DOMAIN m_resources'
    <3> SUFFICES ASSUME NEW n \in 1..Len(m_entries), n < m_next + 1, IsBlockModel(n)
                 PROVE  ModelId(n) \in DOMAIN m_resources \cup {id}
      BY <1>1, <1>2, <2>3
    <3>1. CASE n = m_next  BY <1>1, <3>1
    <3>2. CASE n # m_next
      <4>1. n < m_next  BY <1>4, <3>2
      <4> QED  BY <1>1, <4>1 DEF LoadedInv
    <3> QED  BY <3>1, <3>2
  <2> QED  BY <1>1, <1>6, <1>7, <2>4, <2>5 DEF LoadedInv
<1>8. CASE read_file(m_next) \notin ModelFile /\ stage' = "bad_model" /\ m_resources' = m_resources
  <2>1. content \notin ModelFile  BY <1>3, <1>5, <1>8, ModelsAssumption
  <2>2. \A i \in DOMAIN m_resources' : m_resources'[i].file \in Contents(i)'  BY <1>2, <1>8 DEF LoadedInv
  <2>3. \E i \in Id : \E c \in Contents(i)' : c \notin ModelFile  BY <1>2, <1>5, <2>1
  <2> QED  BY <1>1, <1>6, <1>8, <2>2, <2>3 DEF LoadedInv
<1> QED  BY <1>7, <1>8 DEF load_model

\* finalize changes no model's file.
LEMMA FilesKept ==
    ASSUME ModelsInv, NEW id \in Id, finalize(id)
    PROVE  /\ DOMAIN m_resources' = DOMAIN m_resources
           /\ \A i \in DOMAIN m_resources : m_resources'[i].file = m_resources[i].file
<1>1. m_resources \in [DOMAIN m_resources -> Model]  BY DEF ModelsInv, ResourcesType
<1>2. ASSUME NEW k \in DOMAIN m_resources, NEW model, model.file = m_resources[k].file,
             m_resources' = [m_resources EXCEPT ![k] = model]
      PROVE  /\ DOMAIN m_resources' = DOMAIN m_resources
             /\ \A i \in DOMAIN m_resources : m_resources'[i].file = m_resources[i].file
  BY <1>1, <1>2
<1>3. ASSUME NEW model \in Model PROVE Moved(model).file = model.file
  BY DEF Model, Moved
<1>4. ASSUME NEW k \in DOMAIN m_resources, NEW elements, NEW ao, Finalized(k, elements, ao)
      PROVE  /\ DOMAIN m_resources' = DOMAIN m_resources
             /\ \A i \in DOMAIN m_resources : m_resources'[i].file = m_resources[i].file
  <2> DEFINE model == [m_resources[k] EXCEPT !.elements = elements, !.ao = ao, !.loading = FALSE]
  <2>1. m_resources' = [m_resources EXCEPT ![k] = model]  BY <1>4 DEF Finalized
  <2>2. model.file = m_resources[k].file
    <3>1. m_resources[k] \in Model  BY <1>1
    <3> QED  BY <3>1 DEF Model
  <2> HIDE DEF model
  <2> QED  BY <1>2, <2>1, <2>2
<1>5. CASE visit(id)
  <2>1. id \in DOMAIN m_resources  BY <1>5 DEF visit, ModelsInv, LoadingInv
  <2>2. m_resources' = m_resources \/ m_resources' = [m_resources EXCEPT ![id] = Moved(m_resources[id])]
    BY <1>5 DEF visit
  <2>3. Moved(m_resources[id]).file = m_resources[id].file  BY <1>1, <1>3, <2>1
  <2> QED  BY <1>2, <2>1, <2>2, <2>3
<1>6. CASE finalize_parent(id)
  <2>1. Parent(id) \in DOMAIN m_resources  BY <1>6 DEF finalize_parent
  <2>2. \/ m_resources' = m_resources
        \/ m_resources' = [m_resources EXCEPT ![Parent(id)] = Moved(m_resources[Parent(id)])]
    BY <1>6 DEF finalize_parent
  <2>3. Moved(m_resources[Parent(id)]).file = m_resources[Parent(id)].file  BY <1>1, <1>3, <2>1
  <2> QED  BY <1>2, <2>1, <2>2, <2>3
<1>7. CASE finalize_root(id) \/ inherit(id) \/ inherit_sentinel(id)
  <2>1. Finalizing(id)  BY <1>7 DEF finalize_root, inherit, inherit_sentinel
  <2>2. id \in DOMAIN m_resources  BY <2>1, Running
  <2>3. \E elements, ao : Finalized(id, elements, ao)
    BY <1>7 DEF finalize_root, inherit, inherit_sentinel
  <2> QED  BY <1>4, <2>2, <2>3
<1> QED  BY <1>5, <1>6, <1>7 DEF finalize

LEMMA LoadedStep ==
    StoragesInv /\ ScanInv /\ MirrorInv /\ ModelsInv /\ LoadedInv /\ [Next]_vars => LoadedInv'
<1> SUFFICES ASSUME StoragesInv, ScanInv, MirrorInv, ModelsInv, LoadedInv, [Next]_vars PROVE LoadedInv'
  OBVIOUS
<1>1. CASE Building  BY <1>1, LoadedBuild
<1>2. CASE skip_node  BY <1>2, LoadedSkip
<1>3. ASSUME NEW id \in Id, load_model(id) PROVE LoadedInv'  BY <1>3, LoadedModel
<1>4. CASE model_unreadable
  BY <1>4, LoadedQuiet DEF model_unreadable, TreeUnchanged
<1>5. CASE models_loaded
  <2>1. m_next > Len(m_entries) /\ stage = "loading"  BY <1>5 DEF models_loaded
  <2> QED  BY <1>5, <2>1, LoadedQuiet DEF models_loaded, TreeUnchanged
<1>6. ASSUME NEW id \in Id, finalize(id) PROVE LoadedInv'
  <2>1. /\ stage = "finalizing" /\ stage' \in {"finalizing", "overflow"}
        /\ m_next' = m_next /\ m_entries' = m_entries /\ m_storages' = m_storages
    BY <1>6 DEF finalize, visit, finalize_parent, finalize_root, inherit, inherit_sentinel, Finalizing, Finalized,
                TreeUnchanged, vfsVars
  <2>2. m_next > Len(m_entries)  BY <2>1 DEF LoadedInv
  <2> QED  BY <1>6, <2>1, <2>2, FilesKept, LoadedQuiet
<1>7. CASE models_final
  <2>1. stage = "finalizing"  BY <1>7 DEF models_final
  <2>2. m_next > Len(m_entries)  BY <2>1 DEF LoadedInv
  <2> QED  BY <1>7, <2>1, <2>2, LoadedQuiet DEF models_final, TreeUnchanged
<1>8. CASE UNCHANGED vars
  <2>1. stage \in {"finalizing", "running", "overflow"} => m_next > Len(m_entries)  BY DEF LoadedInv
  <2> QED  BY <1>8, <2>1, LoadedQuiet DEF vars, vfsVars
<1> QED  BY <1>1, <1>2, <1>3, <1>4, <1>5, <1>6, <1>7, <1>8 DEF Next

LEMMA LoadedThere ==
    StoragesInv /\ ScanInv /\ MirrorInv /\ LoadedInv => LoadsWhatIsThere
<1> SUFFICES ASSUME StoragesInv, ScanInv, MirrorInv, LoadedInv PROVE LoadsWhatIsThere  OBVIOUS
<1>1. \A id \in DOMAIN m_resources : m_resources[id].file \in Contents(id)  BY DEF LoadedInv
<1>2. stage = "bad_model" => \E id \in Id : \E content \in Contents(id) : content \notin ModelFile  BY DEF LoadedInv
<1>3. ASSUME stage \in {"finalizing", "running", "overflow"}, NEW id \in Id
      PROVE  id \in DOMAIN m_resources <=> Contents(id) # {}
  <2>1. id \in DOMAIN m_resources => Contents(id) # {}  BY <1>1
  <2>2. ASSUME Contents(id) # {} PROVE id \in DOMAIN m_resources
    <3>1. PICK i \in DOMAIN m_storages : \E path \in DOMAIN m_storages[i] : IsModelOf(id, path)
      BY <2>2 DEF Contents
    <3>2. PICK path \in DOMAIN m_storages[i] : IsModelOf(id, path)  BY <3>1
    <3>3. i \in 1..Len(m_storages)  BY <3>1 DEF StoragesInv
    <3>4. PICK o : Origins(o) /\ Complete(o)  BY DEF MirrorInv
    <3>5. Whole(o)  BY <1>3, <3>4, TreeWhole
    <3>6. PICK n \in 1..Len(m_entries) : IsBlockModel(n) /\ ModelId(n) = id
      BY <3>2, <3>3, <3>4, <3>5, ModelNode
    <3>7. n < m_next
      <4>1. m_next > Len(m_entries) /\ m_next \in Nat  BY <1>3 DEF LoadedInv
      <4>2. Len(m_entries) \in Nat  BY <3>6, NodeFacts
      <4> QED  BY <4>1, <4>2
    <3> QED  BY <1>3, <3>6, <3>7 DEF LoadedInv
  <2> QED  BY <2>1, <2>2
<1> QED  BY <1>1, <1>2, <1>3 DEF LoadsWhatIsThere, Contents, IsModelOf

\* Whatever the directories and files are, the models are those whose files are in
\* models/block of a namespace, with what is in these (manager::load).
THEOREM ModelsLoad == Spec => []LoadsWhatIsThere
<1> DEFINE Inv == StoragesInv /\ ScanInv /\ MirrorInv /\ ModelsInv /\ LoadedInv
<1>1. Init => Inv  BY StoragesInit, ScanInit, MirrorInit, InitModelsInv, LoadedInit DEF Init
<1>2. Inv /\ [Next]_vars => Inv'  BY ScanStep, MirrorStep, NextModelsInv, LoadedStep
<1>3. Inv => LoadsWhatIsThere  BY LoadedThere
<1> QED  BY <1>1, <1>2, <1>3, PTL DEF Spec
=============================================================================

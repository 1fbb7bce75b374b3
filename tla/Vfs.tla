-------------------------------- MODULE Vfs ---------------------------------
(***************************************************************************)
(* vfs::build_tree and the host_storage_iterator it drives.  Two things    *)
(* walk the directories at once and know of each other only through what   *)
(* next() returns: the iterator keeps the open directories and the path of *)
(* the innermost one, build_tree the node of it.                           *)
(*                                                                         *)
(* A directory tree is a function from the paths in it, sequences of       *)
(* names, to what is there: Directory or the contents of a file.  What     *)
(* readdir does not call a directory is a file (a link to one is).         *)
(***************************************************************************)
EXTENDS Integers, Sequences, SequencesExt, FiniteSets

CONSTANTS
    StorageLists,   \* the lists of directory trees to start with
    Directory       \* what is at a path that is a directory

\* What is in a directory has a name, and the directory is there.
ASSUME VfsAssumption ==
    \A list \in StorageLists :
        /\ list \in Seq(Range(list))
        /\ \A i \in DOMAIN list : \A path \in DOMAIN list[i] :
              /\ path \in Seq(Range(path)) /\ path # <<>>
              /\ Len(path) > 1 => Front(path) \in DOMAIN list[i] /\ list[i][Front(path)] = Directory

VARIABLES
    stage,          \* what main is at: "building" the tree, ...
    m_storages,
    s,              \* the storage being read, Len(m_storages) + 1 at the end
    m_iterators,    \* the directories open: the names not yet read of each
    m_path,         \* the path of the innermost one
    current,        \* its node
    m_entries       \* the nodes below the root, in the order they were made

vfsVars == <<stage, m_storages, s, m_iterators, m_path, current, m_entries>>

Root == 0
NoNode == -1

\* What opendir finds at path: the names in it.
NamesIn(storage, path) ==
    {Last(p) : p \in {q \in DOMAIN storage : Front(q) = path}}

-----------------------------------------------------------------------------
\* tree_node::find: the first entry of that name.
find(node, name) ==
    LET found == {n \in DOMAIN m_entries : m_entries[n].parent = node /\ m_entries[n].name = name}
    IN  IF found = {} THEN NoNode ELSE CHOOSE n \in found : \A k \in found : n <= k

\* vfs::find_file: one part after the other, from the root.
find_file(path) ==
    LET node[i \in 0..Len(path)] ==
            IF i = 0 THEN Root
            ELSE IF node[i - 1] = NoNode THEN NoNode ELSE find(node[i - 1], path[i])
    IN  node[Len(path)]

\* tree_node::generate_path, without the empty name of the root.
generate_path(n) ==
    LET path[k \in Root..Len(m_entries)] ==
            IF k = Root THEN <<>> ELSE Append(path[m_entries[k].parent], m_entries[k].name)
    IN  path[n]

-----------------------------------------------------------------------------
VfsInit ==
    /\ stage = "building"
    /\ m_storages \in StorageLists
    /\ s = 1
    /\ m_iterators = <<>>
    /\ m_path = <<>>
    /\ current = Root
    /\ m_entries = <<>>

\* create_iterator, for the next storage.
create_iterator ==
    /\ stage = "building" /\ m_iterators = <<>> /\ s <= Len(m_storages)
    /\ m_iterators' = <<NamesIn(m_storages[s], <<>>)>>
    /\ m_path' = <<>>
    /\ current' = Root
    /\ UNCHANGED <<stage, m_storages, s, m_entries>>

\* Slip: every entry given the storage.
Entry_Stored(name, isDirectory) ==
    /\ stage = "building" /\ m_iterators # <<>>
    /\ name \in Last(m_iterators)
    /\ isDirectory <=> m_storages[s][Append(m_path, name)] = Directory
    /\ m_entries' = Append(m_entries, [name |-> name, parent |-> current, storage |-> s])
    /\ UNCHANGED <<stage, m_storages, s>>

\* next() is true: readdir has a name, in any order.  The entry gets a node; a
\* directory is opened and its node is the current one.
Entry(name, isDirectory) ==
    /\ stage = "building" /\ m_iterators # <<>>
    /\ name \in Last(m_iterators)
    /\ isDirectory <=> m_storages[s][Append(m_path, name)] = Directory
    /\ m_entries' = Append(m_entries, [name |-> name, parent |-> current,
                                       storage |-> IF isDirectory THEN 0 ELSE s])
    /\ UNCHANGED <<stage, m_storages, s>>

NamesLeft(name) == [m_iterators EXCEPT ![Len(m_iterators)] = @ \ {name}]

next_file(name) ==
    /\ Entry(name, FALSE)
    /\ m_iterators' = NamesLeft(name)
    /\ UNCHANGED <<m_path, current>>

next_directory(name) ==
    /\ Entry(name, TRUE)
    /\ m_path' = Append(m_path, name)
    /\ m_iterators' = Append(NamesLeft(name), NamesIn(m_storages[s], m_path'))
    /\ current' = Len(m_entries')

\* Slip: the path keeps the name of the directory left.
next_end_PathKept ==
    /\ stage = "building" /\ m_iterators # <<>> /\ Last(m_iterators) = {}
    /\ m_iterators' = Front(m_iterators)
    /\ IF current = Root
       THEN s' = s + 1 /\ UNCHANGED current
       ELSE current' = m_entries[current].parent /\ UNCHANGED s
    /\ UNCHANGED <<stage, m_storages, m_entries, m_path>>

\* next() is false: the directory is closed, and its node's parent the current
\* one; the root has none, which ends the storage.
next_end ==
    /\ stage = "building" /\ m_iterators # <<>> /\ Last(m_iterators) = {}
    /\ m_iterators' = Front(m_iterators)
    /\ m_path' = IF m_iterators' = <<>> THEN m_path ELSE Front(m_path)
    /\ IF current = Root
       THEN s' = s + 1 /\ UNCHANGED current
       ELSE current' = m_entries[current].parent /\ UNCHANGED s
    /\ UNCHANGED <<stage, m_storages, m_entries>>

\* opendir or readdir fails: nothing catches what is thrown.
storage_fails ==
    /\ stage = "building" /\ s <= Len(m_storages)
    /\ stage' = "io_error"
    /\ UNCHANGED <<m_storages, s, m_iterators, m_path, current, m_entries>>

tree_built ==
    /\ stage = "building" /\ s > Len(m_storages)
    /\ stage' = "loading"
    /\ UNCHANGED <<m_storages, s, m_iterators, m_path, current, m_entries>>

build_tree ==
    \/ create_iterator \/ next_end \/ storage_fails \/ tree_built
    \/ \E name \in UNION Range(m_iterators) : next_file(name) \/ next_directory(name)

-----------------------------------------------------------------------------
\* The iterator and build_tree are in the same directory at every step, with as
\* many directories open as the node is deep, although each keeps its own way
\* back (host_storage_iterator::next's m_path and m_iterators, build_tree's
\* parent pointer).
ScanAgrees ==
    m_iterators # <<>> =>
        /\ m_path = generate_path(current)
        /\ Len(m_iterators) = Len(m_path) + 1

\* When the tree is built every path of every storage has exactly one node, with
\* the storage if it is a file, and there are no others; find_file finds it by
\* its path unless an earlier storage has something there or at a directory on
\* the way (build_tree adds nodes and never merges them).
TreeMirrorsDisk ==
    stage \notin {"building", "io_error"} =>
        LET NodesAt(path) == {n \in DOMAIN m_entries : generate_path(n) = path}
            Holders(path) == {i \in DOMAIN m_storages : path \in DOMAIN m_storages[i]}
        IN  /\ \A n \in DOMAIN m_entries : Holders(generate_path(n)) # {}
            /\ \A i \in DOMAIN m_storages : \A path \in DOMAIN m_storages[i] :
                  LET isFile == m_storages[i][path] # Directory
                  IN  /\ Cardinality(NodesAt(path)) = Cardinality(Holders(path))
                      /\ isFile => \E n \in NodesAt(path) : m_entries[n].storage = i
                      /\ (\A k \in 1..(i - 1) : SubSeq(path, 1, 1) \notin DOMAIN m_storages[k]) =>
                            /\ find_file(path) \in NodesAt(path)
                            /\ m_entries[find_file(path)].storage = IF isFile THEN i ELSE 0
=============================================================================

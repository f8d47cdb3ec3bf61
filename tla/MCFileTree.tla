----------------------------- MODULE MCFileTree -----------------------------
(***************************************************************************)
(* Module FileTree for TLC: paths through a device directory and a mount   *)
(* point, relative ones, and a disk with a file and a directory.           *)
(***************************************************************************)
EXTENDS FileTree

CONSTANTS f1, f2, f3

MCLayout == [d \in {"/", "dev", "mnt"} |-> IF d = "/" THEN <<"mnt", "dev">> ELSE <<>>]
MCPaths == [abs : {TRUE}, comps : {<<"dev">>, <<"dev", "a">>, <<"mnt", "">>, <<"mnt", "a">>}]
           \cup [abs : {FALSE}, comps : {<<"..", "dev">>}]
MCNewPaths == [abs : {TRUE}, comps : {<<"dev", "a">>, <<"mnt", "a">>}]
MCtty == <<"dev", "a">>
\* A fault ends a behaviour: what it left behind need not be told apart.
FaultView == IF fault THEN <<fault>> ELSE <<fault, vars>>
\* At most one link, a second process or an offset beyond the entries only while
\* there is at most one file, and no process with a current directory while a file
\* is open or there are three files.
Few == /\ Cardinality({n \in Live(file) : file[n].kind = "link"}) <= 1
       /\ (Cardinality(alive) = 1 /\ openfp[Boot][0].ptr <= 2) \/ Cardinality(Live(file) \cap Files) <= 1
       /\ \A p, q \in alive :
            cdir[p] = NULL \/ (openfp[q][0] = Closed /\ Cardinality(Live(file) \cap Files) <= 2)
MCDisk == [i \in 2 .. 3 |-> IF i = 2 THEN <<[name |-> "a", kind |-> "ext2dir", ino |-> 3],
                                            [name |-> "b", kind |-> "ext2file", ino |-> 3]>>
                            ELSE <<>>]
===============================================================================

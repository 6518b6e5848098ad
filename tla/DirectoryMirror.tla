--------------------------- MODULE DirectoryMirror ---------------------------
(***************************************************************************)
(* What the sequenced directory promises its readers: reading "the changes *)
(* since my cursor" is indistinguishable from being sent the whole         *)
(* directory.  No sequence numbers, cursors, tombstones or generations:    *)
(* an answer is a complete copy of the directory at the moment of the      *)
(* read, and committing it makes the reader's replica that copy.           *)
(***************************************************************************)
CONSTANTS Readers, Contents, Empty

VARIABLES
  directory,  \* the directory the daemon serves
  answer,     \* per reader: the set of copies on their way to it, at most one
  replica     \* per reader: its copy

vars == <<directory, answer, replica>>

Init ==
  /\ directory = Empty
  /\ answer = [r \in Readers |-> {}]
  /\ replica = [r \in Readers |-> Empty]

Change ==
  /\ directory' \in Contents
  /\ UNCHANGED <<answer, replica>>

\* The listing that serves a read may itself change what the daemon knows.
Read(r) ==
  /\ directory' \in Contents
  /\ answer' = [answer EXCEPT ![r] = {directory'}]
  /\ UNCHANGED replica

Commit(r) ==
  /\ \E copy \in answer[r] : replica' = [replica EXCEPT ![r] = copy]
  /\ answer' = [answer EXCEPT ![r] = {}]
  /\ UNCHANGED directory

Lose(r) ==
  /\ answer' = [answer EXCEPT ![r] = {}]
  /\ UNCHANGED <<directory, replica>>

Restart ==
  /\ directory' = Empty
  /\ answer' = [r \in Readers |-> {}]
  /\ UNCHANGED replica

Next ==
  \/ Change
  \/ \E r \in Readers : Read(r) \/ Commit(r) \/ Lose(r)
  \/ Restart

Spec == Init /\ [][Next]_vars
=============================================================================

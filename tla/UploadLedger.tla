---------------------------- MODULE UploadLedger ----------------------------
(***************************************************************************)
(* What the upload pipeline promises about the files it is given, whatever *)
(* the threads, queues and connections behind it do: a file leaves the     *)
(* disk only when contents of its name are stored remotely, when the       *)
(* master has refused uploads, or when it is too old; and a saved file     *)
(* meta names contents that are stored remotely under the meta's own key.  *)
(***************************************************************************)

CONSTANTS Uploads, KeyOf, FileOf, None

Names == {FileOf[u] : u \in Uploads}

VARIABLES
    accepted,   \* uploads that have reached the disk
    disk,       \* file name -> the upload whose bytes the file has, or None
    stored,     \* contents stored remotely
    docs,       \* <<upload, contents>>: saved metas and what they refer to
    dropped,    \* uploads given up because the master reported errors
    aged        \* uploads older than the ttl

vars == <<accepted, disk, stored, docs, dropped, aged>>

Init ==
    /\ accepted = {}
    /\ disk = [n \in Names |-> None]
    /\ stored = {}
    /\ docs = {}
    /\ dropped = {}
    /\ aged = {}

\* A new upload is on disk, in place of an older one of the same name.
Accept(u) ==
    /\ u \notin accepted
    /\ accepted' = accepted \cup {u}
    /\ disk' = [disk EXCEPT ![FileOf[u]] = u]
    /\ UNCHANGED <<stored, docs, dropped, aged>>

\* Contents that were on disk are stored remotely.
Store(u) ==
    /\ u \in accepted
    /\ stored' = stored \cup {u}
    /\ UNCHANGED <<accepted, disk, docs, dropped, aged>>

\* The meta of an upload is saved with a reference to stored contents.
Record(u, v) ==
    /\ u \in accepted
    /\ v \in stored
    /\ KeyOf[u] = KeyOf[v]
    /\ docs' = docs \cup {<<u, v>>}
    /\ UNCHANGED <<accepted, disk, stored, dropped, aged>>

\* A file is deleted because contents of that name are stored.
Release(n) ==
    /\ \E v \in stored : FileOf[v] = n
    /\ disk' = [disk EXCEPT ![n] = None]
    /\ UNCHANGED <<accepted, stored, docs, dropped, aged>>

\* A file is deleted because uploads are refused.
Drop(n) ==
    /\ dropped' = dropped \cup ({disk[n]} \ {None})
    /\ disk' = [disk EXCEPT ![n] = None]
    /\ UNCHANGED <<accepted, stored, docs, aged>>

\* Files older than the ttl are deleted.
Expire(S) ==
    /\ \A n \in S : disk[n] \in aged
    /\ disk' = [n \in Names |-> IF n \in S THEN None ELSE disk[n]]
    /\ UNCHANGED <<accepted, stored, docs, dropped, aged>>

\* An accepted upload becomes older than the ttl.
Grow(u) ==
    /\ u \in accepted
    /\ aged' = aged \cup {u}
    /\ UNCHANGED <<accepted, disk, stored, docs, dropped>>

Next ==
    \/ \E u \in Uploads : Accept(u) \/ Store(u) \/ Grow(u)
    \/ \E u, v \in Uploads : Record(u, v)
    \/ \E n \in Names : Release(n) \/ Drop(n)
    \/ \E S \in SUBSET Names : Expire(S)

Spec == Init /\ [][Next]_vars

=============================================================================

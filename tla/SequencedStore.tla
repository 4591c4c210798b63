---------------------------- MODULE SequencedStore ----------------------------
(***************************************************************************)
(* What a storage promises the engine: it takes commits in the order in    *)
(* which they are handed over, applies them one whole commit at a time,    *)
(* and answers every request out of the commits it has applied.            *)
(***************************************************************************)
EXTENDS Integers, Sequences, FiniteSetsExt, Functions

CONSTANT Fetches   \* requests

VARIABLES sequenced,  \* [sequenceId, mutations], in the order of the calls
          applied,    \* how many of them are applied
          requests,   \* [documentId, sequenceId] of a request, or NoRequest
          answers     \* the version a request was answered with, or Pending

vars == <<sequenced, applied, requests, answers>>

NoRequest == [documentId |-> 0, sequenceId |-> 0]

\* versions are sequence ids, zero stands for "not found"
NotFound == 0
Pending == -1

(* The index of a storage that has applied these commits. *)
IndexOf(commits) ==
    UNION {[documentId : Range(c.mutations), sequenceId : {c.sequenceId}] :
              c \in Range(commits)}

(* The newest version of a document that is not newer than asked for. *)
Lookup(keys, request) ==
    LET versions == {k.sequenceId : k \in {k \in keys :
                        /\ k.documentId = request.documentId
                        /\ k.sequenceId <= request.sequenceId}}
    IN  IF versions = {} THEN NotFound ELSE Max(versions)

Init ==
    /\ sequenced = <<>> /\ applied = 0
    /\ requests = [f \in Fetches |-> NoRequest]
    /\ answers = [f \in Fetches |-> Pending]

(* The commit a step adds is found in the next state. *)
Sequence ==
    /\ \E c \in Range(sequenced') : sequenced' = Append(sequenced, c)
    /\ UNCHANGED <<applied, requests, answers>>

Apply ==
    /\ applied < Len(sequenced)
    /\ applied' = applied + 1
    /\ UNCHANGED <<sequenced, requests, answers>>

Ask(f) ==
    /\ requests[f] = NoRequest /\ requests'[f] # NoRequest
    /\ requests' = [requests EXCEPT ![f] = requests'[f]]
    /\ UNCHANGED <<sequenced, applied, answers>>

Answer(f) ==
    /\ requests[f] # NoRequest /\ answers[f] = Pending
    /\ answers' = [answers EXCEPT ![f] =
            Lookup(IndexOf(SubSeq(sequenced, 1, applied)), requests[f])]
    /\ UNCHANGED <<sequenced, applied, requests>>

(* The caller has its answer; its name may be used again. *)
Close(f) ==
    /\ answers[f] # Pending
    /\ requests' = [requests EXCEPT ![f] = NoRequest]
    /\ answers' = [answers EXCEPT ![f] = Pending]
    /\ UNCHANGED <<sequenced, applied>>

Next ==
    \/ Sequence \/ Apply
    \/ \E f \in Fetches : Ask(f) \/ Answer(f) \/ Close(f)

Spec == Init /\ [][Next]_vars
==============================================================================

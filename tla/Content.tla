------------------------------- MODULE Content -------------------------------
(* The vocabulary that the client's raw store and the server share. *)
EXTENDS Integers, FiniteSets

CONSTANTS
  Conversations,  \* (session_id, thread_id) pairs of one client, one task each
  MaxRequests,    \* bound: content requests ever created
  Parts,          \* ContentPart values
  Objects,        \* content hashes (object_sha256)
  MaxStamp        \* bound: values of created_at_ms, in order of capture

NoConv == "none"

ASSUME ContentAssumption ==
  /\ MaxRequests \in Nat
  /\ MaxStamp \in Nat
  /\ NoConv \notin Conversations

Requests == 1..MaxRequests

(* ContentObjectManifest, without the sizes that follow from the object. *)
Manifest == [req : Requests, obj : Objects, part : Parts, stamp : 0..MaxStamp]
=============================================================================

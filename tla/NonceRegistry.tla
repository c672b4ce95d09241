--------------------------- MODULE NonceRegistry ---------------------------
(***************************************************************************)
(* What handshake replay protection promises, without the cache: a         *)
(* registry of bounded capacity that every handler asks in one step.  It   *)
(* is the specification HandshakeReplay implements; the promises are those *)
(* of the package comment of replaycache.go and of the comments on         *)
(* HandshakeReplayChecker (replaycache/handshake_integration.go:9-20).     *)
(*                                                                         *)
(* A key is known until the time known[key].  A handler whose hello is     *)
(* genuine is admitted if its key is not known, and registers it; it is    *)
(* refused if the key is known.  The time both go by, `at', is one the     *)
(* handler has read: it may be past.  A key is forgotten before its time   *)
(* only to register another one when the registry is full.                 *)
(***************************************************************************)
EXTENDS Integers, FiniteSets

CONSTANTS
    Handlers,
    Keys,
    Retention,     \* how long a key stays known
    Capacity       \* how many keys the registry has room for

VARIABLES
    strict,        \* admission tests the key; never changes
    clock,
    known,         \* key -> the time until which it is known
    claim,         \* the key each handler came with
    outcome        \* what became of it

vars == <<strict, clock, known, claim, outcome>>

NoKey == <<>>

Expired == {k \in DOMAIN known : known[k] <= clock}

Keep(gone) == [k \in DOMAIN known \ gone |-> known[k]]

Init ==
    /\ strict \in BOOLEAN
    /\ clock = 0
    /\ known = [k \in {} |-> 0]
    /\ claim = [h \in Handlers |-> NoKey]
    /\ outcome = [h \in Handlers |-> "new"]

Tick ==
    /\ clock' = clock + 1
    /\ UNCHANGED <<strict, known, claim, outcome>>

\* Keys whose time has come may go at any step of any handler.
Expire ==
    /\ \E gone \in SUBSET Expired : known' = Keep(gone)
    /\ UNCHANGED <<strict, clock, claim, outcome>>

\* A handler comes with a key, or with a nonce that makes no key.
Begin(h, key) ==
    /\ outcome[h] = "new"
    /\ outcome' = [outcome EXCEPT ![h] = "pending"]
    /\ claim' = [claim EXCEPT ![h] = key]
    /\ UNCHANGED <<strict, clock, known>>

Malformed(h) ==
    /\ outcome[h] = "new"
    /\ outcome' = [outcome EXCEPT ![h] = "rejected"]
    /\ UNCHANGED <<strict, clock, known, claim>>

Reject(h) ==
    /\ outcome[h] = "pending"
    /\ outcome' = [outcome EXCEPT ![h] = "rejected"]
    /\ UNCHANGED <<strict, clock, known, claim>>

Refuse(h, at) ==
    /\ outcome[h] = "pending"
    /\ claim[h] \in DOMAIN known
    /\ at < known[claim[h]]
    /\ \E gone \in SUBSET Expired : known' = Keep(gone)
    /\ outcome' = [outcome EXCEPT ![h] = "refused"]
    /\ UNCHANGED <<strict, clock, claim>>

Admit(h, at, gone) ==
    LET key == claim[h]
        early == gone \ (Expired \cup {key})
    IN  /\ outcome[h] = "pending"
        /\ strict /\ key \in DOMAIN known => known[key] <= at
        /\ early # {} => Cardinality(DOMAIN known) = Capacity
        /\ \A j, k \in early : j = k
        /\ known' = [k \in DOMAIN Keep(gone) \cup {key} |->
                        IF k = key THEN at + Retention ELSE known[k]]
        /\ Cardinality(DOMAIN known') <= Capacity
        /\ outcome' = [outcome EXCEPT ![h] = "admitted"]
        /\ UNCHANGED <<strict, clock, claim>>

Next ==
    \/ Tick
    \/ Expire
    \/ \E h \in Handlers :
          \/ \E key \in Keys : Begin(h, key)
          \/ Malformed(h) \/ Reject(h)
          \/ \E at \in 0..clock : Refuse(h, at)
          \/ \E at \in 0..clock, gone \in SUBSET DOMAIN known : Admit(h, at, gone)

Spec == Init /\ [][Next]_vars
=============================================================================

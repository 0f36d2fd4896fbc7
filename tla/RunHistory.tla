----------------------------- MODULE RunHistory -----------------------------
(***************************************************************************)
(* The run history kept inside a task file, src/backlog_py/orchestration/  *)
(* history.py: at most MaxEntries entries, the oldest of which becomes a   *)
(* truncation marker once entries have been dropped.  The marker remembers *)
(* the last MaxDroppedKeys idempotency keys that went with them.           *)
(*                                                                         *)
(* An entry is a record with a field key; every other field belongs to its *)
(* fingerprint.  Pure operators; Orchestration gives them a state.         *)
(***************************************************************************)
EXTENDS Integers, Sequences, SequencesExt

CONSTANTS MaxEntries,      \* MAX_RUN_HISTORY_ENTRIES
          MaxDroppedKeys,  \* MAX_RUN_HISTORY_DROPPED_KEYS
          NoKey            \* the entry has no idempotency key

ASSUME EntriesAssumption == MaxEntries \in Nat /\ MaxEntries >= 2
ASSUME DroppedAssumption == MaxDroppedKeys \in Nat \ {0}

EmptyHistory == [marked |-> FALSE, dropped |-> <<>>, events |-> <<>>]

Size(h) == Len(h.events) + (IF h.marked THEN 1 ELSE 0)

\* The file still knows about key k.
Knows(h, k) == Contains(h.dropped, k) \/ \E i \in DOMAIN h.events : h.events[i].key = k

\* The keys on the marker once the first n entries have gone, without repeats.
DroppedKeys(h, n) ==
  LET keys[i \in 0..n] ==
        IF i = 0 THEN h.dropped
        ELSE IF h.events[i].key = NoKey \/ Contains(keys[i - 1], h.events[i].key)
             THEN keys[i - 1]
             ELSE Append(keys[i - 1], h.events[i].key)
  IN  keys[n]

\* The newest keys that fit on the marker.
Bounded(keys) ==
  IF Len(keys) <= MaxDroppedKeys THEN keys
  ELSE SubSeq(keys, Len(keys) - MaxDroppedKeys + 1, Len(keys))

\* Append an entry; past the cap, move the oldest ones into the marker, which
\* takes a slot of its own.
AppendEntry(h, e) ==
  LET n    == Len(h.events)
      drop == Max({n + 2 - MaxEntries, 1})
  IN  IF Size(h) + 1 <= MaxEntries
      THEN [h EXCEPT !.events = Append(@, e)]
      ELSE [marked  |-> TRUE,
            dropped |-> Bounded(DroppedKeys(h, drop)),
            events  |-> Append(SubSeq(h.events, drop + 1, n), e)]

Fingerprint(e) == [e EXCEPT !.key = NoKey]

\* MUTANT of Match: the keys on the marker are forgotten.
Match_NoMarker(h, e) ==
  LET used == {i \in DOMAIN h.events : h.events[i].key = e.key}
  IN  IF e.key = NoKey \/ used = {} THEN "new"
      ELSE IF Fingerprint(h.events[Min(used)]) = Fingerprint(e) THEN "replay"
      ELSE "conflict"

\* What find_idempotency_match says of e: "new" work, the "replay" of an entry
\* with the same fingerprint, or a "conflict" (raised as an error) when the key
\* went with a dropped entry or belongs to different work.
Match(h, e) ==
  LET used == {i \in DOMAIN h.events : h.events[i].key = e.key}
  IN  IF e.key = NoKey THEN "new"
      ELSE IF Contains(h.dropped, e.key) THEN "conflict"
      ELSE IF used = {} THEN "new"
      ELSE IF Fingerprint(h.events[Min(used)]) = Fingerprint(e) THEN "replay"
      ELSE "conflict"
=============================================================================

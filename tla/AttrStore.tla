------------------------------ MODULE AttrStore -------------------------------
(***************************************************************************)
(* What the storage of attributes promises: a table that Put and Del       *)
(* change, whose reader gets what was last written, and which a crash sets *)
(* back, key by key, to something written since the last Sync or to what   *)
(* was there then.                                                         *)
(***************************************************************************)
CONSTANTS Key, Value, None

VARIABLES
  contents,   \* [Key -> Value \cup {None}]
  answer,     \* what the last Get returned
  since       \* the values of each key since the last Sync

storeVars == <<contents, answer, since>>

Init ==
  /\ contents = [k \in Key |-> None] /\ answer = None
  /\ since = [k \in Key |-> {None}]

Becomes(k, v) ==
  /\ contents' = [contents EXCEPT ![k] = v]
  /\ since' = [since EXCEPT ![k] = @ \cup {v}]
  /\ UNCHANGED answer

Put(k, v) == Becomes(k, v)
Del(k) == Becomes(k, None)

Get(k) == answer' = contents[k] /\ UNCHANGED <<contents, since>>

Sync == since' = [k \in Key |-> {contents[k]}] /\ UNCHANGED <<contents, answer>>

Crash ==
  /\ \A k \in Key : contents'[k] \in since[k]
  /\ DOMAIN contents' = Key
  /\ since' = [k \in Key |-> {contents'[k]}]
  /\ answer' = None

Next ==
  \/ \E k \in Key : Del(k) \/ Get(k) \/ \E v \in Value : Put(k, v)
  \/ Sync \/ Crash

Spec == Init /\ [][Next]_storeVars
=============================================================================

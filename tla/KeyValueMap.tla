---------------------------- MODULE KeyValueMap ----------------------------
(***************************************************************************)
(* What a map from keys to values promises its one caller: every call is   *)
(* answered from the entries inserted and not erased since.                *)
(***************************************************************************)
CONSTANTS Keys, Values, NoValue, NoReply

VARIABLES
  content,   \* the entries, a function from the keys that have one
  reply      \* the last call answered, and its answer

Init == content = [k \in {} |-> NoValue] /\ reply = NoReply

Reply(op, k, v, answer) == [op |-> op, key |-> k, value |-> v, answer |-> answer]

\* TRUE if the key is new; otherwise its value is replaced.
Insert(k, v) ==
  /\ content' = [j \in DOMAIN content \union {k} |-> IF j = k THEN v ELSE content[j]]
  /\ reply' = Reply("insert", k, v, k \notin DOMAIN content)

Find(k) ==
  /\ reply' = Reply("find", k, NoValue, IF k \in DOMAIN content THEN content[k] ELSE NoValue)
  /\ UNCHANGED content

\* TRUE if there was an entry.
Erase(k) ==
  /\ content' = [j \in DOMAIN content \ {k} |-> content[j]]
  /\ reply' = Reply("erase", k, NoValue, k \in DOMAIN content)

Next == \E k \in Keys : Find(k) \/ Erase(k) \/ \E v \in Values : Insert(k, v)

Spec == Init /\ [][Next]_<<content, reply>>

=============================================================================

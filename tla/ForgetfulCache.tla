--------------------------- MODULE ForgetfulCache ---------------------------
(***************************************************************************)
(* What Gateway.invoke relies on in the Cache protocol of core/cache.py:   *)
(* a cache may forget any response at any time, but it answers with what   *)
(* was stored last under the key, or with nothing.                         *)
(***************************************************************************)
CONSTANTS CacheKeys, Responses, NoResponse

VARIABLES known,     \* per key: the response the cache will answer with
          answer     \* what the last get returned

Init == known = [k \in CacheKeys |-> NoResponse] /\ answer = NoResponse

Forgetting(lost) == [k \in CacheKeys |-> IF k \in lost THEN NoResponse ELSE known[k]]

Forget(lost) == known' = Forgetting(lost) /\ UNCHANGED answer

(* Storing one response may push out others. *)
Store(k, r, lost) ==
  known' = [Forgetting(lost) EXCEPT ![k] = r] /\ UNCHANGED answer

Lookup(k) == answer' = known[k] /\ UNCHANGED known

Next ==
  \/ \E k \in CacheKeys : Lookup(k)
  \/ \E lost \in SUBSET CacheKeys :
       \/ Forget(lost)
       \/ \E k \in CacheKeys, r \in Responses : Store(k, r, lost)

Spec == Init /\ [][Next]_<<known, answer>>
============================================================================

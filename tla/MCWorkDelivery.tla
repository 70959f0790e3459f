--------------------------- MODULE MCWorkDelivery ---------------------------
(* Small instances of WorkDelivery for TLC. *)
EXTENDS WorkDelivery, TLC

CONSTANTS work1, run1, run2, run3, chat1, chat2, chat3, sender1, sender2, account1, account2

OneAccount == [x \in Works \cup Chats |-> account1]
TwoAccounts == [x \in Works \cup Chats |-> IF x = chat3 THEN account2 ELSE account1]
Interchangeable == Permutations(Runs) \cup Permutations(Senders)
=============================================================================

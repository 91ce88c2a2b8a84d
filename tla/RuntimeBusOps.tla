--------------------------- MODULE RuntimeBusOps ----------------------------
(***************************************************************************)
(* The pub/sub half of RuntimeBus as operators on inboxes.  An inbox holds *)
(* what Redis has sent on one instance's subscriber connection and the     *)
(* instance has not handled yet: publish appends to the inbox of every     *)
(* current subscriber, the publisher included, and a message published     *)
(* while an instance is not subscribed never reaches it.                   *)
(***************************************************************************)
EXTENDS Sequences

FanOut(inbox, subscribers, message) ==
  [i \in DOMAIN inbox |->
     IF i \in subscribers THEN Append(inbox[i], message) ELSE inbox[i]]

TakeFirst(inbox, i) == [inbox EXCEPT ![i] = Tail(@)]

Carried(queue) == {queue[k] : k \in DOMAIN queue}

=============================================================================

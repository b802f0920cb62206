------------------------------ MODULE Channels ------------------------------
(***************************************************************************)
(* The bounded channel of the register VM (`VmChannel`) as a record, and   *)
(* the tests and transfers the scheduler and the channel intrinsics make   *)
(* on it.  A message is an identifier; nothing inspects its payload.       *)
(*                                                                         *)
(* The source keeps channels in a map from ids; `present` says that an id  *)
(* is in it.  Ids come from `Channel.bounded` only and channels are never  *)
(* removed, so no handle meets the "unknown channel" answer.               *)
(***************************************************************************)
EXTENDS Integers, Sequences

VmChannel(Msg) ==
  [present : BOOLEAN, queue : Seq(Msg), capacity : Nat \ {0}, senders : Int,
   receiver_taken : BOOLEAN, receiver_closed : BOOLEAN]

VmChannelNew(capacity) ==
  [present |-> TRUE, queue |-> <<>>, capacity |-> capacity, senders |-> 0,
   receiver_taken |-> FALSE, receiver_closed |-> FALSE]

\* An id that `Channel.bounded` has not returned yet.
NoChannel ==
  [present |-> FALSE, queue |-> <<>>, capacity |-> 1, senders |-> 0,
   receiver_taken |-> FALSE, receiver_closed |-> FALSE]

\* A parked `recv` may be resolved.
channel_ready(ch) ==
  ch.queue # <<>> \/ ch.senders = 0 \/ ch.receiver_closed

\* A parked `send` may be resolved.
channel_has_space(ch) ==
  ch.receiver_closed \/ Len(ch.queue) < ch.capacity

\* `Sender.send` through a handle must park: the handle is open and the
\* buffer of an open channel is full.
channel_send_would_block(closed, ch) ==
  ~closed /\ ~ch.receiver_closed /\ Len(ch.queue) >= ch.capacity

\* What `channel_send` answers; only "sent" changes the channel.
channel_send_result(closed, ch) ==
  IF closed THEN "sender_closed"
  ELSE IF ch.receiver_closed THEN "channel_closed"
  ELSE IF Len(ch.queue) >= ch.capacity THEN "would_block"
  ELSE "sent"

\* Mutant: the message is queued before the checks.
channel_send_eager(closed, ch, msg) == [ch EXCEPT !.queue = Append(@, msg)]

channel_send(closed, ch, msg) ==
  IF channel_send_result(closed, ch) = "sent"
  THEN [ch EXCEPT !.queue = Append(@, msg)]
  ELSE ch

\* What `channel_recv` answers; only "some" changes the channel.
channel_recv_result(ch) ==
  IF ch.queue # <<>> THEN "some"
  ELSE IF ch.senders = 0 THEN "end_of_stream"
  ELSE "would_block"

\* Mutant: the newest message is removed.
channel_recv_newest(ch) ==
  IF ch.queue # <<>> THEN [ch EXCEPT !.queue = SubSeq(@, 1, Len(@) - 1)] ELSE ch

channel_recv(ch) ==
  IF ch.queue # <<>> THEN [ch EXCEPT !.queue = Tail(@)] ELSE ch

\* `Channel.sender` and the first `Sender.close` of a handle count endpoints.
\* The count is a signed 64-bit integer whose saturation is far out of reach.
add_sender(ch) == [ch EXCEPT !.senders = @ + 1]
drop_sender(ch) == [ch EXCEPT !.senders = @ - 1]

\* Mutant: the list is copied and the buffer is kept.
channel_drain_kept(ch) == ch

\* `Stream.collect_list` on a channel stream empties the buffer whether or
\* not it then answers with the list.
channel_drain(ch) == [ch EXCEPT !.queue = <<>>]
=============================================================================

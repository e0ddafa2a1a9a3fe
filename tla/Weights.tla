------------------------------ MODULE Weights ------------------------------
(***************************************************************************)
(* Weights, and the benchmarked ones (runtime/src/weights) of the hooks    *)
(* and the queues that a block runs on its own: execution time in          *)
(* microseconds, rounded up, and proof size in bytes.  RuntimeCalls has    *)
(* those of the calls.                                                     *)
(***************************************************************************)
EXTENDS Integers

(* RocksDbWeight.                                                          *)
DbRead == 25
DbWrite == 100

W(micros, proof, reads, writes) ==
    [t |-> micros + DbRead * reads + DbWrite * writes, p |-> proof]

(* w and n times a component of so many nanoseconds, bytes and accesses.   *)
Per(w, n, nanos, proof, reads, writes) ==
    [t |-> w.t + (n * nanos) \div 1000 + n * (DbRead * reads + DbWrite * writes),
     p |-> w.p + n * proof]

Add(v, w) == [t |-> v.t + w.t, p |-> v.p + w.p]
Sub(v, w) == [t |-> v.t - w.t, p |-> v.p - w.p]
Fits(v, limit) == v.t <= limit.t /\ v.p <= limit.p

(* Weight::saturating_sub.                                                 *)
Remaining(v, w) == [t |-> IF v.t > w.t THEN v.t - w.t ELSE 0, p |-> IF v.p > w.p THEN v.p - w.p ELSE 0]

ZeroWeight == [t |-> 0, p |-> 0]

Percent(n, w) == [t |-> (w.t \div 100) * n, p |-> (w.p * n) \div 100]

(* Importing an empty block, and executing an empty extrinsic.             *)
BlockExecutionWeight == W(5000, 0, 0, 0)
ExtrinsicBaseWeight == W(125, 0, 0, 0)

(* Hooks whose work varies, by its amount.                                 *)
new_session(c, r) == Per(Per(W(24, 6287, 4, 0), c, 16133, 2519, 1, 1), r, 0, 2603, 0, 0)

service_agenda_base(s) == Per(W(9, 42428, 1, 1), s, 447, 0, 0, 0)

service_task_fetched(s) == Per(W(24, 3644, 3, 2), s, 2, 1, 0, 0)

on_initialize_proposals(p) == Per(W(179, 22019, 10, 14), p, 4023, 2583, 1, 0)

enqueue_inbound_downward_messages(n) == Per(W(3, 3517, 3, 4), n, 192445, 0, 0, 1)

collator_hooks ==
    [note_author |-> W(59, 6196, 2, 3)]

message_queue_service ==
    [ready_ring_knit |-> W(16, 6044, 3, 2),
     ready_ring_unknit |-> W(14, 6044, 3, 3),
     service_queue_base |-> W(5, 3517, 1, 1),
     service_page_base_completion |-> W(7, 69050, 1, 1),
     service_page_base_no_completion |-> W(8, 69050, 1, 1),
     service_page_item |-> W(165, 0, 0, 2),
     bump_service_head |-> W(9, 3517, 2, 1)]

scheduler_service ==
    [service_agendas_base |-> W(4, 1489, 1, 1),
     service_task_base |-> W(5, 0, 0, 0),
     service_task_named |-> W(7, 0, 0, 1),
     service_task_periodic |-> W(5, 0, 0, 0),
     execute_dispatch_signed |-> W(3, 0, 0, 0),
     execute_dispatch_unsigned |-> W(4, 0, 0, 0)]

pallet_timestamp ==
    [set |-> W(10, 1493, 2, 1),
     on_finalize |-> W(4, 0, 0, 0)]

xcmp_queue_service ==
    [set_config_with_u32 |-> W(6, 1561, 1, 1),
     enqueue_xcmp_message |-> W(17, 3517, 4, 3),
     suspend_channel |-> W(4, 1561, 1, 1),
     resume_channel |-> W(5, 1596, 1, 1),
     take_first_concatenated_xcm |-> W(11, 0, 0, 0),
     on_idle_good_msg |-> W(119, 69176, 6, 5),
     on_idle_large_msg |-> W(58, 69175, 2, 2)]

=============================================================================

---------------------------- MODULE RuntimeCalls ----------------------------
(***************************************************************************)
(* The benchmarked weights of the runtime's calls (runtime/src/weights).   *)
(* A weight that grows with a component is taken at the end of the         *)
(* component's range.                                                      *)
(***************************************************************************)
EXTENDS Weights

assets_lifecycle ==
    [create |-> W(33, 3675, 2, 2),
     force_create |-> W(12, 3675, 1, 1),
     start_destroy |-> W(15, 3675, 1, 1),
     destroy_accounts |-> Per(W(19, 3675, 2, 1), 1000, 15492, 2609, 2, 2),
     destroy_approvals |-> Per(W(20, 3675, 2, 1), 1000, 18110, 2623, 1, 1),
     finish_destroy |-> W(17, 3675, 2, 1)]

assets_transfers ==
    [mint |-> W(29, 3675, 2, 2),
     burn |-> W(39, 3675, 2, 2),
     transfer |-> W(55, 6208, 4, 4),
     transfer_keep_alive |-> W(49, 6208, 4, 4),
     force_transfer |-> W(54, 6208, 4, 4),
     freeze |-> W(20, 3675, 2, 1),
     thaw |-> W(20, 3675, 2, 1),
     freeze_asset |-> W(15, 3675, 1, 1),
     thaw_asset |-> W(15, 3675, 1, 1)]

assets_metadata ==
    [transfer_ownership |-> W(17, 3675, 2, 1),
     set_team |-> W(15, 3675, 1, 1),
     set_metadata |-> Per(Per(W(35, 3675, 2, 1), 50, 3, 0, 0, 0), 50, 2, 0, 0, 0),
     clear_metadata |-> W(35, 3675, 2, 1),
     force_set_metadata |-> Per(Per(W(15, 3675, 2, 1), 50, 1, 0, 0, 0), 50, 2, 0, 0, 0),
     force_clear_metadata |-> W(34, 3675, 2, 1),
     force_asset_status |-> W(14, 3675, 1, 1)]

assets_approvals ==
    [approve_transfer |-> W(40, 3675, 2, 2),
     transfer_approved |-> W(81, 6208, 5, 5),
     cancel_approval |-> W(42, 3675, 2, 2),
     force_cancel_approval |-> W(42, 3675, 2, 2),
     set_min_balance |-> W(16, 3675, 1, 1),
     touch |-> W(41, 3675, 3, 3),
     touch_other |-> W(39, 3675, 2, 2),
     refund |-> W(39, 3675, 3, 3),
     refund_other |-> W(37, 3675, 2, 2),
     block |-> W(20, 3675, 2, 1)]

pallet_balances ==
    [transfer_allow_death |-> W(64, 3593, 1, 1),
     transfer_keep_alive |-> W(51, 3593, 1, 1),
     force_set_balance_creating |-> W(20, 3593, 1, 1),
     force_set_balance_killing |-> W(27, 3593, 1, 1),
     force_transfer |-> W(66, 6196, 2, 2),
     transfer_all |-> W(64, 3593, 1, 1),
     force_unreserve |-> W(24, 3593, 1, 1),
     upgrade_accounts |-> Per(W(22, 990, 0, 0), 1000, 17575, 2603, 1, 1),
     force_adjust_total_issuance |-> W(9, 0, 0, 0)]

collator_invulnerables ==
    [set_invulnerables |-> Per(W(12, 1188, 0, 1), 20, 4020, 2555, 1, 0),
     add_invulnerable |-> Per(Per(W(51, 6287, 4, 3), 19, 224, 37, 0, 0), 99, 162, 53, 0, 0),
     remove_invulnerable |-> Per(W(15, 6287, 2, 1), 20, 228, 0, 0, 0),
     set_desired_candidates |-> W(7, 0, 0, 1),
     set_candidacy_bond |-> Per(Per(W(13, 6287, 2, 1), 100, 7132, 901, 0, 1), 100, 6852, 901, 0, 1)]

collator_candidates ==
    [update_bond |-> Per(W(37, 6287, 2, 1), 100, 141, 0, 0, 0),
     register_as_candidate |-> Per(W(49, 6287, 4, 2), 99, 175, 54, 0, 0),
     take_candidate_slot |-> Per(W(73, 6287, 5, 4), 100, 191, 54, 0, 0),
     leave_intent |-> Per(W(43, 6287, 2, 2), 100, 156, 0, 0, 0)]

pallet_conviction_voting ==
    [vote_new |-> W(156, 42428, 6, 5),
     vote_existing |-> W(207, 83866, 7, 7),
     remove_vote |-> W(168, 83866, 4, 5),
     remove_other_vote |-> W(94, 30706, 2, 1),
     delegate |-> Per(W(1128, 83866, 7, 45), 512, 26346, 3411, 1, 1),
     undelegate |-> Per(W(1109, 83866, 4, 43), 512, 26012, 3411, 1, 1),
     unlock |-> W(108, 30706, 4, 3)]

message_queue_calls ==
    [reap_page |-> W(61, 69050, 2, 2),
     execute_overweight_page_removed |-> W(78, 69050, 2, 2),
     execute_overweight_page_updated |-> W(115, 69050, 2, 2)]

pallet_multisig ==
    [as_multi_threshold_1 |-> Per(W(17, 0, 0, 0), 10000, 1, 0, 0, 0),
     as_multi_create |-> Per(Per(W(39, 6811, 1, 1), 100, 141, 0, 0, 0), 10000, 2, 0, 0, 0),
     as_multi_approve |-> Per(Per(W(22, 6811, 1, 1), 100, 123, 0, 0, 0), 10000, 2, 0, 0, 0),
     as_multi_complete |-> Per(Per(W(44, 6811, 2, 2), 100, 165, 0, 0, 0), 10000, 2, 0, 0, 0),
     approve_as_multi_create |-> Per(W(38, 6811, 1, 1), 100, 147, 0, 0, 0),
     approve_as_multi_approve |-> Per(W(21, 6811, 1, 1), 100, 120, 0, 0, 0),
     cancel_as_multi |-> Per(W(40, 6811, 1, 1), 100, 132, 0, 0, 0)]

preimage_notes ==
    [note_preimage |-> Per(W(63, 3556, 3, 3), 4194304, 3, 0, 0, 0),
     note_requested_preimage |-> Per(W(21, 3556, 2, 2), 4194304, 3, 0, 0, 0),
     note_no_deposit_preimage |-> Per(W(20, 3556, 2, 2), 4194304, 3, 0, 0, 0),
     unnote_preimage |-> W(70, 3556, 3, 3),
     unnote_no_deposit_preimage |-> W(34, 3556, 2, 2)]

preimage_requests ==
    [request_preimage |-> W(26, 3556, 2, 1),
     request_no_deposit_preimage |-> W(19, 3556, 2, 1),
     request_unnoted_preimage |-> W(20, 3556, 2, 1),
     request_requested_preimage |-> W(15, 3556, 2, 1),
     unrequest_preimage |-> W(33, 3556, 2, 2),
     unrequest_unnoted_preimage |-> W(15, 3556, 2, 1),
     unrequest_multi_referenced_preimage |-> W(15, 3556, 2, 1),
     ensure_updated |-> Per(W(71, 990, 0, 0), 1024, 66717, 2603, 3, 4)]

proxy_announcements ==
    [proxy |-> Per(W(19, 4706, 1, 0), 31, 36, 0, 0, 0),
     proxy_announced |-> Per(Per(W(44, 5698, 3, 2), 31, 181, 0, 0, 0), 31, 38, 0, 0, 0),
     remove_announcement |-> Per(Per(W(31, 5698, 2, 2), 31, 170, 0, 0, 0), 31, 5, 0, 0, 0),
     reject_announcement |-> Per(Per(W(31, 5698, 2, 2), 31, 166, 0, 0, 0), 31, 6, 0, 0, 0),
     announce |-> Per(Per(W(39, 5698, 3, 2), 31, 185, 0, 0, 0), 31, 48, 0, 0, 0)]

proxy_administration ==
    [add_proxy |-> Per(W(30, 4706, 1, 1), 31, 37, 0, 0, 0),
     remove_proxy |-> Per(W(30, 4706, 1, 1), 31, 39, 0, 0, 0),
     remove_proxies |-> Per(W(29, 4706, 1, 1), 31, 46, 0, 0, 0),
     create_pure |-> Per(W(32, 4706, 1, 1), 31, 11, 0, 0, 0),
     kill_pure |-> Per(W(30, 4706, 1, 1), 30, 49, 0, 0, 0)]

referenda_deposits ==
    [submit |-> W(44, 42428, 2, 3),
     place_decision_deposit_preparing |-> W(57, 83866, 3, 4),
     place_decision_deposit_queued |-> W(68, 42428, 4, 4),
     place_decision_deposit_not_queued |-> W(67, 42428, 4, 4),
     place_decision_deposit_passing |-> W(69, 83866, 4, 5),
     place_decision_deposit_failing |-> W(66, 83866, 4, 5),
     refund_decision_deposit |-> W(36, 4401, 1, 1),
     refund_submission_deposit |-> W(36, 4401, 1, 1)]

referenda_removal ==
    [cancel |-> W(41, 83866, 3, 4),
     kill |-> W(114, 83866, 5, 5),
     one_fewer_deciding_queue_empty |-> W(13, 3876, 2, 1),
     one_fewer_deciding_failing |-> W(44, 42428, 3, 3),
     one_fewer_deciding_passing |-> W(48, 42428, 3, 3)]

referenda_preparing ==
    [nudge_referendum_requeued_insertion |-> W(21, 4401, 2, 1),
     nudge_referendum_requeued_slide |-> W(21, 4401, 2, 1),
     nudge_referendum_queued |-> W(26, 4401, 3, 2),
     nudge_referendum_not_queued |-> W(26, 4401, 3, 2),
     nudge_referendum_no_deposit |-> W(27, 42428, 2, 2),
     nudge_referendum_preparing |-> W(27, 42428, 2, 2),
     nudge_referendum_timed_out |-> W(18, 4401, 1, 1)]

referenda_deciding ==
    [nudge_referendum_begin_deciding_failing |-> W(37, 42428, 3, 3),
     nudge_referendum_begin_deciding_passing |-> W(39, 42428, 3, 3),
     nudge_referendum_begin_confirming |-> W(31, 42428, 2, 2),
     nudge_referendum_end_confirming |-> W(32, 42428, 2, 2),
     nudge_referendum_continue_not_confirming |-> W(30, 42428, 2, 2),
     nudge_referendum_continue_confirming |-> W(29, 42428, 2, 2),
     nudge_referendum_approved |-> W(44, 83866, 4, 4),
     nudge_referendum_rejected |-> W(31, 42428, 2, 2),
     set_some_metadata |-> W(25, 4401, 3, 1),
     clear_metadata |-> W(21, 4401, 2, 1)]

scheduler_calls ==
    [schedule |-> Per(W(17, 42428, 1, 1), 49, 488, 0, 0, 0),
     cancel |-> Per(W(20, 42428, 1, 3), 50, 750, 0, 0, 0),
     schedule_named |-> Per(W(23, 42428, 2, 2), 49, 524, 0, 0, 0),
     cancel_named |-> Per(W(23, 42428, 2, 3), 50, 765, 0, 0, 0),
     schedule_retry |-> Per(W(13, 42428, 1, 2), 50, 35, 0, 0, 0),
     set_retry |-> W(33, 42428, 1, 1),
     set_retry_named |-> W(41, 42428, 2, 1),
     cancel_retry |-> W(33, 42428, 1, 1),
     cancel_retry_named |-> W(39, 42428, 2, 1)]

pallet_session ==
    [set_keys |-> W(23, 3763, 2, 2),
     purge_keys |-> W(17, 3745, 1, 2)]

pallet_sudo ==
    [set_key |-> W(13, 1517, 1, 1),
     sudo |-> W(14, 1517, 1, 0),
     sudo_as |-> W(14, 1517, 1, 0),
     remove_key |-> W(12, 1517, 1, 1)]

treasury_proposals ==
    [spend_local |-> W(15, 1887, 2, 3),
     propose_spend |-> W(31, 1489, 1, 2),
     reject_proposal |-> W(48, 6196, 3, 3),
     approve_proposal |-> Per(W(14, 3573, 2, 1), 99, 105, 0, 0, 0),
     remove_approval |-> W(8, 1887, 1, 1)]

treasury_spends ==
    [spend |-> W(17, 1489, 1, 2),
     payout |-> W(63, 5318, 6, 5),
     check_status |-> W(29, 5318, 2, 2),
     void_spend |-> W(17, 5318, 1, 1)]

pallet_utility ==
    [batch |-> Per(W(15, 0, 0, 0), 1000, 4452, 0, 0, 0),
     as_derivative |-> W(7, 0, 0, 0),
     batch_all |-> Per(W(13, 0, 0, 0), 1000, 4787, 0, 0, 0),
     dispatch_as |-> W(10, 0, 0, 0),
     force_batch |-> Per(W(15, 0, 0, 0), 1000, 4435, 0, 0, 0)]

pallet_whitelist ==
    [whitelist_call |-> W(24, 3556, 3, 2),
     remove_whitelisted_call |-> W(22, 3556, 3, 2),
     dispatch_whitelisted_call |-> Per(W(36, 3716, 4, 3), 4194294, 2, 1, 0, 0),
     dispatch_whitelisted_call_with_preimage |-> Per(W(27, 3556, 3, 2), 10000, 2, 0, 0, 0)]

(* Calls without a weights file here: pallet_xcm has TestWeightInfo, the   *)
(* pallet's own, and pallet_rosca, in dev_mode, no weight at all.          *)
unbenchmarked_calls ==
    [pallet_xcm |-> W(100, 0, 0, 0),
     pallet_rosca |-> ZeroWeight]

(* The calls with a weights file here, at the most its benchmark measured. *)
(* Those of frame_system and of parachain_system's upgrades have weights   *)
(* of their own pallets and are left out; so is what a call adds for a     *)
(* call inside it or for a weight that it is given.                        *)
CallWeights ==
    UNION {{table[c] : c \in DOMAIN table} : table \in
           {assets_lifecycle, assets_transfers, assets_metadata,
            assets_approvals, pallet_balances, collator_invulnerables,
            collator_candidates, pallet_conviction_voting, message_queue_calls,
            pallet_multisig, preimage_notes, preimage_requests,
            proxy_announcements, proxy_administration, referenda_deposits,
            referenda_removal, referenda_preparing, referenda_deciding,
            scheduler_calls, pallet_session, pallet_sudo,
            treasury_proposals, treasury_spends, pallet_utility,
            pallet_whitelist, pallet_timestamp, xcmp_queue_service,
            unbenchmarked_calls}}

=============================================================================

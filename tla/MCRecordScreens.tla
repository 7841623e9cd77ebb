---------------------------- MODULE MCRecordScreens ----------------------------
(* Every screen of the console, two operators and two fields.  The lists     *)
(* are the screens' exceptions: without an entry the run finds its           *)
(* counterexample.                                                           *)
EXTENDS ScreenTables, RecordScreens, TLC

CONSTANTS ana, ben, title, note

Two == {ana, ben}
Pair == {title, note}
Alike == Permutations(Two) \cup Permutations(Pair)

EditsByCopy ==
  {<<"account", "edit_account">>, <<"campaign", "edit">>, <<"number", "edit_number">>,
   <<"template", "save_template">>, <<"user", "assign_role">>}
EditsWithoutVersion ==
  {<<"pipeline", "edit_pipeline">>, <<"pipeline", "edit_stage">>, <<"role", "rename_role">>,
   <<"role", "set_permissions">>, <<"segment", "edit_segment">>}

(* A copied draft sent whole under the newest version, or under none.        *)
OverwritingVerbs == EditsByCopy \cup EditsWithoutVersion

(* And those that send only what was typed, whatever it replaces.            *)
BlindVerbs ==
  OverwritingVerbs \cup
    {<<"campaign", "schedule">>, <<"flag", "describe">>, <<"setting", "edit_application">>,
     <<"setting", "edit_preferences">>, <<"task", "reschedule">>, <<"thread", "assign">>,
     <<"thread", "set_status">>}

(* Dialogs that stay open, and send, over a copy that no longer offers them. *)
StaleDialogs ==
  {<<"campaign", v>> : v \in {"dispatch", "cancel", "delete", "schedule"}} \cup
    {<<"document", v>> : v \in {"reject", "archive", "add_version"}} \cup
    {<<"account", "disconnect">>, <<"pipeline", "delete_pipeline">>, <<"media", "delete_media">>}

(* Tasks are offered to readers; roles are assigned under another permission *)
(* than users are updated; a case's gates, KYC's transitions and the         *)
(* segments' permission are left for the server to refuse; messages lack the *)
(* key the server requires.                                                  *)
UnguardedVerbs ==
  {<<"task", v>> : v \in {"complete", "snooze", "reopen", "reschedule", "edit_task",
                          "bulk_complete", "bulk_delete"}} \cup
    {<<"user", "assign_role">>, <<"case", "move_case">>, <<"kyc", "prepare_pending">>,
     <<"kyc", "review">>, <<"segment", "refresh_segment">>,
     <<"conversation", "send">>, <<"conversation", "react">>} \cup StaleDialogs

(* What the page renders in place of the form when a refetch fails.          *)
TakenByErrors ==
  {<<"user", "edit_user">>, <<"user", "assign_role">>, <<"role", "rename_role">>,
   <<"campaign", "edit">>, <<"campaign", "schedule">>, <<"template", "save_template">>,
   <<"setting", "edit_application">>, <<"setting", "edit_preferences">>,
   <<"account", "edit_account">>, <<"number", "edit_number">>, <<"task", "reschedule">>,
   <<"pipeline", "edit_pipeline">>, <<"pipeline", "edit_stage">>, <<"segment", "edit_segment">>,
   <<"case", "save_case">>}

(* Copied again, or not rendered any more, when the record changed.          *)
TakenByCopies ==
  {<<"automation", "save_draft">>, <<"case", "save_case">>, <<"kyc", "prepare_pending">>,
   <<"kyc", "prepare_review">>, <<"campaign", "edit">>, <<"template", "save_template">>}

(* Cleared as the save is sent, accepted or not.                             *)
TakenBySaves == {<<"setting", "edit_application">>, <<"setting", "edit_preferences">>}

For(cause, listed) == {<<e[1], e[2], cause>> : e \in listed}
ForgetfulVerbs ==
  For("error", TakenByErrors) \cup For("copy", TakenByCopies) \cup For("save", TakenBySaves)

(* Refusals for a missing permission depend on no other operator.            *)
LacksAlone ==
  \A o, p \in Operators : o # p /\ may[o] # Codes(kind) => form[p] = NoForm /\ call[p] = NoCall

(* Once handlers have raced the versions tell nothing and nothing is         *)
(* claimed; from a version past the bound nothing is sent.                   *)
Bounded == ~ raced /\ record.version <= MaxVersion /\ LacksAlone
==============================================================================

----------------------------- MODULE ScreenTables -----------------------------
(***************************************************************************)
(* What each screen of the console offers to do to a record, component by   *)
(* component: in which states and to whom a control is shown, what the      *)
(* request sends, and in which states and for which permission the server   *)
(* accepts it (its services are named beside the states they accept).       *)
(* Permissions and states are those of the code; a record that has no       *)
(* states of its own is "kept" until it is "gone".                          *)
(***************************************************************************)
Control(does, offered, shows, accepted, needs, to, version) ==
  [does |-> does, offered |-> offered, shows |-> shows, accepted |-> accepted, needs |-> needs,
   to |-> to, draft |-> "press", version |-> version, body |-> "none", frame |-> "own"]

Editor(does, offered, shows, accepted, needs, to, draft, version, body, frame) ==
  [does |-> does, offered |-> offered, shows |-> shows, accepted |-> accepted, needs |-> needs,
   to |-> to, draft |-> draft, version |-> version, body |-> body, frame |-> frame]

(* A dialog that only asks to confirm.                                       *)
Confirm(does, offered, shows, accepted, needs, to, draft, version, frame) ==
  Editor(does, offered, shows, accepted, needs, to, draft, version, "none", frame)

Record(starts, drifts, verbs) ==
  [starts |-> starts, drifts |-> drifts, verbs |-> verbs, locked |-> FALSE]
(* Its handlers read the row with_for_update.                                *)
LockedRecord(starts, drifts, verbs) ==
  [Record(starts, drifts, verbs) EXCEPT !.locked = TRUE]

Kept == {"kept"}
Gone == {"gone"}
Stays == {}

-----------------------------------------------------------------------------
(* Campaigns: campaign_service, campaign_dispatch_service,                   *)
(* campaign_schedule_service and campaign_lifecycle_service.                 *)
CampaignOver == {"completed", "cancelled"}
CampaignStates ==
  {"draft", "scheduled", "queued", "running", "paused"} \cup CampaignOver

(* Mutant: a scheduled campaign is taken to be a draft still. *)
Editable_Scheduled == {"draft", "scheduled"}
Editable == {"draft"}

Dispatchable == {"draft", "scheduled"}
Pausable == {"queued", "running"}
Resumable == {"paused"}
Cancellable == CampaignStates \ CampaignOver
Retryable == CampaignStates \ {"cancelled"}

(* The list rows and the detail page; cancel is not rendered for a draft,    *)
(* which the server would cancel.                                            *)
CampaignActions ==
  { Confirm("dispatch", Dispatchable, "campaigns:send", {"draft", "scheduled"}, "campaigns:send",
            {"queued"}, "followed", "none", "page"),
    Control("pause", Pausable, "campaigns:manage", {"queued", "running"}, "campaigns:manage",
            {"paused"}, "none"),
    Control("resume", Resumable, "campaigns:manage", {"paused"}, "campaigns:manage",
            {"running"}, "none"),
    Control("retry", Retryable, "campaigns:send", CampaignStates \ {"cancelled"},
            "campaigns:send", {"running"}, "none"),
    Confirm("cancel", Cancellable \ Editable, "campaigns:manage", CampaignStates \ CampaignOver,
            "campaigns:manage", {"cancelled"}, "followed", "none", "page"),
    Confirm("delete", Editable, "campaigns:write", {"draft"}, "campaigns:write", Gone,
            "followed", "none", "page") }

(* The dialog opens blank over whatever schedule there is.                   *)
CampaignScheduleDialog ==
  { Editor("schedule", Dispatchable, "campaigns:send", {"draft", "scheduled"}, "campaigns:send",
           {"scheduled"}, "followed", "none", "touched", "page") }

(* The wizard is seeded once with the campaign the page loaded, and sends    *)
(* the row_version of the page's newest copy with every field.               *)
CampaignEditPage ==
  { Editor("edit", Editable, "campaigns:write", {"draft"}, "campaigns:write", {"draft"},
           "copied", "shown", "whole", "edit") }

CampaignScreen ==
  Record({"draft", "running"},
         {<<"scheduled", "queued">>, <<"queued", "running">>, <<"running", "completed">>},
         CampaignActions \cup CampaignScheduleDialog \cup CampaignEditPage)

-----------------------------------------------------------------------------
(* Users, roles and keys: user_service, rbac_service, api_key_service.       *)
UsersPanel ==
  { Confirm("disable", {"active"}, "users:manage", {"active", "disabled"}, "users:manage",
            {"disabled"}, "copied", "none", "kept"),
    Control("enable", {"disabled"}, "users:manage", {"active", "disabled"}, "users:manage",
            {"active"}, "none") }

(* Mutant: the dialog sends the version of the list's newest row. *)
UserFormDialog_Live ==
  { Editor("edit_user", {"active", "disabled"}, "users:manage", {"active", "disabled"},
           "users:manage", Stays, "copied", "shown", "whole", "kept") }

(* The dialog keeps the row it was opened with, version included.            *)
UserFormDialog ==
  { Editor("edit_user", {"active", "disabled"}, "users:manage", {"active", "disabled"},
           "users:manage", Stays, "copied", "opened", "whole", "kept") }

(* The dialog assigns one role to many users: it sends each user's roles as  *)
(* the list has them, with or without this one.                              *)
RoleAssignDialog ==
  { Editor("assign_role", {"active", "disabled"}, "roles:write", {"active", "disabled"},
           "users:manage", Stays, "copied", "shown", "whole", "kept") }

UserScreen ==
  Record({"active"}, {}, UsersPanel \cup UserFormDialog \cup RoleAssignDialog)

(* Controls are hidden for system roles, and delete for one with holders.    *)
RoleActions ==
  { Confirm("delete_role", Kept, "roles:write", Kept, "roles:write", Gone,
            "copied", "none", "kept") }
RoleFormDialog ==
  { Editor("rename_role", Kept, "roles:write", Kept, "roles:write", Stays,
           "copied", "none", "whole", "kept") }
PermissionMatrix ==
  { Editor("set_permissions", Kept, "roles:write", Kept, "roles:write", Stays,
           "copied", "none", "whole", "listed") }
RoleScreen == Record(Kept, {}, RoleActions \cup RoleFormDialog \cup PermissionMatrix)

(* Rotating creates a key and then revokes this one.                         *)
ApiKeyActions ==
  { Confirm("revoke", {"active", "expired"}, "apikeys:manage", {"active", "expired", "revoked"},
            "apikeys:manage", {"revoked"}, "copied", "none", "kept"),
    Confirm("rotate", {"active", "expired"}, "apikeys:manage", {"active", "expired", "revoked"},
            "apikeys:manage", {"revoked"}, "copied", "none", "kept") }
ApiKeyScreen == Record({"active"}, {<<"active", "expired">>}, ApiKeyActions)

-----------------------------------------------------------------------------
(* Settings: organization_service checks the version, settings_service has   *)
(* none.                                                                     *)
(* Typed fields are laid over the newest copy, whose version is sent.        *)
OrganizationPanel ==
  { Editor("edit_organization", Kept, "settings:manage", Kept, "settings:manage", Stays,
           "followed", "shown", "whole", "own") }

OrganizationScreen == Record(Kept, {}, OrganizationPanel)

KeyValueEditor(does) ==
  Editor(does, Kept, "settings:manage", Kept, "settings:manage", Stays,
         "dropped", "none", "touched", "page")
ApplicationPanel == {KeyValueEditor("edit_application")}
PreferencesPanel == {KeyValueEditor("edit_preferences")}

(* The switch sends the opposite of what it shows.                           *)
FeatureFlagsPanel ==
  { Control("toggle", {"on", "off"}, "settings:manage", {"on", "off"}, "settings:manage",
            {"on", "off"}, "none"),
    Editor("describe", {"on", "off"}, "settings:manage", {"on", "off"}, "settings:manage", Stays,
           "copied", "none", "touched", "own") }
SettingScreen == Record(Kept, {}, ApplicationPanel \cup PreferencesPanel)
FlagScreen == Record({"on"}, {}, FeatureFlagsPanel)

-----------------------------------------------------------------------------
(* Channels: waba_service, phone_number_service.  An account that still has  *)
(* numbers ("in use") is not disconnected.                                   *)
WabaStates == {"in_use", "empty", "suspended"}
WabaActions ==
  { Confirm("disconnect", {"empty", "suspended"}, "waba:manage", {"empty", "suspended"},
            "waba:manage", Gone, "followed", "none", "page"),
    Control("reactivate", {"suspended"}, "waba:manage", WabaStates, "waba:manage",
            {"empty"}, "shown"),
    Control("sync", WabaStates, "waba:manage", WabaStates, "waba:manage", Stays, "none") }
WabaFormDialog ==
  { Editor("edit_account", WabaStates, "waba:manage", WabaStates, "waba:manage", Stays,
           "copied", "shown", "whole", "page") }
NumberActions ==
  { Control("refresh_number", Kept, "waba:manage", Kept, "waba:manage", Stays, "none") }
NumberEditDialog ==
  { Editor("edit_number", Kept, "waba:manage", Kept, "waba:manage", Stays,
           "copied", "shown", "whole", "page") }
AccountScreen ==
  Record({"empty"}, {<<"empty", "in_use">>, <<"empty", "suspended">>},
         WabaActions \cup WabaFormDialog)
NumberScreen == Record(Kept, {}, NumberActions \cup NumberEditDialog)

-----------------------------------------------------------------------------
(* Tasks: task_service.  The actions of a row are shown to every reader of   *)
(* tasks; only the profile's section hides its form from who may not write.  *)
TaskOver == {"completed", "cancelled"}
TaskActions ==
  { Control("complete", {"open"}, "none", {"open"}, "tasks:write", {"completed"}, "shown"),
    Control("snooze", {"open"}, "none", {"open"}, "tasks:write", {"open"}, "shown"),
    Control("reopen", TaskOver, "none", TaskOver, "tasks:write", {"open"}, "none") }

(* The date is seeded when the row is mounted.                               *)
TaskReschedule ==
  { Editor("reschedule", {"open"}, "none", {"open"} \cup TaskOver, "tasks:write", Stays,
           "copied", "shown", "touched", "page") }

(* The form keeps the row it was opened with.                                *)
TaskForm ==
  { Editor("edit_task", {"open"} \cup TaskOver, "none", {"open"} \cup TaskOver, "tasks:write",
           Stays, "copied", "opened", "whole", "own") }

(* The bar over the selected rows.                                           *)
TaskBulkActions ==
  { Control("bulk_complete", {"open"}, "none", {"open"}, "tasks:write", {"completed"}, "none"),
    Control("bulk_delete", {"open"} \cup TaskOver, "none", {"open"} \cup TaskOver, "tasks:write",
            Gone, "none") }

TaskScreen ==
  Record({"open", "completed"}, {},
         TaskActions \cup TaskReschedule \cup TaskForm \cup TaskBulkActions)

-----------------------------------------------------------------------------
(* Templates: template_service.  Saving makes a draft; submitting hands it   *)
(* to Meta, whose webhook decides.                                           *)
TemplateStates == {"draft", "pending", "approved", "rejected"}
TemplateActions ==
  { Confirm("delete_template", TemplateStates, "templates:write", TemplateStates,
            "templates:write", Gone, "followed", "none", "page") }
TemplateEditPage ==
  { Editor("save_template", {"draft", "rejected"}, "templates:write", {"draft", "rejected"},
           "templates:write", {"draft", "pending"}, "copied", "shown", "whole", "edit") }
TemplateScreen ==
  Record({"draft"},
         {<<"pending", "approved">>, <<"pending", "rejected">>},
         TemplateActions \cup TemplateEditPage)

-----------------------------------------------------------------------------
(* Pipelines and segments have no version: lead_service, segment_service.    *)
PipelineActions ==
  { Control("make_default", {"other"}, "contacts:write", {"other", "default"}, "contacts:write",
            {"default"}, "none"),
    Confirm("delete_pipeline", {"other"}, "contacts:write", {"other"}, "contacts:write", Gone,
            "followed", "none", "page") }
PipelineFormDialog ==
  { Editor("edit_pipeline", {"other", "default"}, "contacts:write", {"other", "default"},
           "contacts:write", Stays, "copied", "none", "whole", "page") }
StageDialog ==
  { Editor("edit_stage", {"other", "default"}, "contacts:write", {"other", "default"},
           "contacts:write", Stays, "copied", "none", "whole", "page") }
PipelineScreen ==
  Record({"other"}, {<<"default", "other">>},
         PipelineActions \cup PipelineFormDialog \cup StageDialog)

SegmentActions ==
  { Control("refresh_segment", Kept, "none", Kept, "segments:read", Stays, "none"),
    Confirm("delete_segment", Kept, "segments:write", Kept, "segments:write", Gone,
            "followed", "none", "page") }
SegmentEditor ==
  { Editor("edit_segment", Kept, "segments:write", Kept, "segments:write", Stays,
           "copied", "none", "whole", "page") }
SegmentScreen == Record(Kept, {}, SegmentActions \cup SegmentEditor)

-----------------------------------------------------------------------------
(* Automations: automation_service locks the flow's row.  The builder copies *)
(* the draft again whenever the name, the description or the graph it was    *)
(* given changes.                                                            *)
FlowStates == {"draft", "published", "disabled"}
AutomationSave ==
  { Editor("save_draft", FlowStates, "automations:write", FlowStates, "automations:write", Stays,
           "reseeded", "shown", "whole", "own") }
(* Publish follows a validation of the saved draft; the controls are         *)
(* disabled while the draft has unsaved changes.                             *)
AutomationActions ==
  { Control("publish", {"draft"}, "automations:publish", FlowStates, "automations:publish",
            {"published"}, "shown"),
    Control("disable_flow", {"published"}, "automations:publish", {"published"},
            "automations:publish", {"disabled"}, "shown"),
    Control("enable_flow", {"disabled"}, "automations:publish", {"disabled"},
            "automations:publish", {"published"}, "shown"),
    Control("restore", {"published", "disabled"}, "automations:write", {"published", "disabled"},
            "automations:write", Stays, "shown") }
AutomationScreen == LockedRecord({"draft"}, {}, AutomationSave \cup AutomationActions)

-----------------------------------------------------------------------------
(* The reactivation case: vi_domain_service.  A stage is offered when the    *)
(* server listed it in available_transitions; the gates of a stage (checks,  *)
(* documents, KYC) are met where the case "may" move on.                     *)
CaseStates == {"lead", "gated", "closed"}
ReactivationMove ==
  { Confirm("move_case", {"lead", "gated"}, "reactivation:transition", {"lead"},
            "reactivation:transition", {"lead", "closed"}, "copied", "opened", "own") }
ReactivationOwnership ==
  { Editor("save_case", CaseStates, "reactivation:write", CaseStates, "reactivation:write", Stays,
           "reseeded", "shown", "whole", "page") }
(* A decision and its reason, seeded from nothing.                           *)
EligibilityPanel ==
  { Control("record_eligibility", {"lead"}, "reactivation:transition", {"lead"},
            "reactivation:transition", Stays, "none") }
CaseScreen ==
  Record({"lead"}, {<<"lead", "gated">>, <<"gated", "lead">>},
         ReactivationMove \cup ReactivationOwnership \cup EligibilityPanel)

(* KYC: the panel copies the card whenever it changes.  The server accepts a *)
(* preparation status only along KYC_PREPARATION_TRANSITIONS; the select     *)
(* offers all three.  "pending" cannot follow "under_review".                *)
KycOpen == {"pending", "documents_pending", "under_review"}
Prepare(does, s, from) ==
  Editor(does, KycOpen, "kyc:write", from, "kyc:write", {s}, "reseeded", "shown", "whole",
         "live")
VerificationPanel ==
  { Prepare("prepare_pending", "pending", {"pending", "documents_pending"}),
    Prepare("prepare_review", "under_review", KycOpen) }
KycDocumentsPanel ==
  { Control("link_document", KycOpen, "kyc:write", KycOpen, "kyc:write", Stays, "shown") }
(* A review is offered to anyone but the requester until the case is         *)
(* decided; the server wants an active review state.                         *)
DecisionPanel ==
  { Control("review", KycOpen, "kyc:decide", {"under_review", "documents_pending"}, "kyc:decide",
            {"under_review", "documents_pending", "rejected"}, "shown") }
KycScreen ==
  Record({"pending"}, {}, VerificationPanel \cup KycDocumentsPanel \cup DecisionPanel)

-----------------------------------------------------------------------------
(* Customer documents: contact_document_service.                             *)
DocumentStates == {"submitted", "verified", "rejected", "expired", "archived"}
DocumentDetailDialog ==
  { Control("approve", {"submitted"}, "documents:verify", {"submitted"}, "documents:verify",
            {"verified"}, "shown"),
    Editor("reject", {"submitted"}, "documents:verify", {"submitted"}, "documents:verify",
           {"rejected"}, "followed", "shown", "touched", "listed"),
    Control("expire", {"verified"}, "documents:verify", {"verified"}, "documents:verify",
            {"expired"}, "shown"),
    Editor("archive", DocumentStates \ {"archived"}, "documents:write",
           DocumentStates \ {"archived"}, "documents:write", {"archived"}, "followed", "shown",
           "touched", "listed") }
(* The dialog follows the list's row.                                        *)
DocumentFormDialog ==
  { Editor("add_version", DocumentStates \ {"archived"}, "documents:write",
           DocumentStates \ {"archived"}, "documents:write", {"submitted"},
           "followed", "shown", "touched", "listed") }
DocumentScreen ==
  Record({"submitted"}, {}, DocumentDetailDialog \cup DocumentFormDialog)

(* Media: a file that was used is kept.  Jobs: job_service.                  *)
MediaActions ==
  { Confirm("delete_media", {"unused"}, "media:write", {"unused"}, "media:write", Gone,
            "followed", "none", "page") }
JobActions ==
  { Confirm("cancel_job", {"queued", "started", "retry"}, "system:manage",
            {"queued", "started", "retry"}, "system:manage", {"revoked"},
            "followed", "none", "edit") }
MediaScreen == Record({"unused", "used"}, {<<"unused", "used">>}, MediaActions)
JobScreen ==
  Record({"queued"},
         {<<"queued", "started">>, <<"started", "retry">>, <<"retry", "started">>,
          <<"started", "success">>}, JobActions)

-----------------------------------------------------------------------------
(* Conversations: inbox_service; send_service behind idempotency.require_key,*)
(* a header the composer and the reaction picker do not send, so that both   *)
(* are refused in every state.                                               *)
Windows == {"window_open", "window_closed"}
Keyless == {}
MessageComposer ==
  { Control("send", {"window_open"}, "messages:send", Keyless, "messages:send", Stays, "none") }
MessageBubble ==
  { Control("react", Windows, "messages:send", Keyless, "messages:send", Stays, "none") }
ConversationScreen ==
  Record({"window_open"}, {<<"window_open", "window_closed">>}, MessageComposer \cup MessageBubble)

(* The two selects of a thread show it as refetched and send what is chosen. *)
AssignmentControl ==
  { Editor("assign", Kept, "inbox:assign", Kept, "inbox:assign", Stays,
           "followed", "none", "touched", "own") }
StatusControl ==
  { Editor("set_status", Kept, "inbox:write", Kept, "inbox:write", Stays,
           "followed", "none", "touched", "own") }
ThreadScreen == Record(Kept, {}, AssignmentControl \cup StatusControl)

ConsoleScreens ==
  [campaign |-> CampaignScreen, user |-> UserScreen, role |-> RoleScreen, key |-> ApiKeyScreen,
   organization |-> OrganizationScreen, setting |-> SettingScreen, flag |-> FlagScreen,
   account |-> AccountScreen, number |-> NumberScreen, task |-> TaskScreen,
   template |-> TemplateScreen, pipeline |-> PipelineScreen, segment |-> SegmentScreen,
   automation |-> AutomationScreen, case |-> CaseScreen, kyc |-> KycScreen,
   document |-> DocumentScreen, media |-> MediaScreen, job |-> JobScreen,
   conversation |-> ConversationScreen,
   thread |-> ThreadScreen]
==============================================================================

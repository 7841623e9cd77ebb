---------------------------- MODULE ConsoleQueries ----------------------------
(***************************************************************************)
(* The data hooks of the console, feature by feature: which entry of the    *)
(* query cache each useQuery keeps, what it reads of the server and whether *)
(* it polls; and what each useMutation makes the server write, which key    *)
(* prefixes its onSuccess invalidates, and which entries it fills from the  *)
(* answer.  "id" stands for the entity both sides are about, "query" for    *)
(* the filters, page and search term in a key.                              *)
(***************************************************************************)
EXTENDS FiniteSets, Sequences

Query(key, reads) == [key |-> key, reads |-> reads, polls |-> "never"]
Polled(key, reads) == [key |-> key, reads |-> reads, polls |-> "always"]
(* refetchInterval is a function of the answer: some answers stop the poll.  *)
PolledWhile(key, reads) == [key |-> key, reads |-> reads, polls |-> "sometimes"]

Mutation(hook, writes, invalidates) ==
  [hook |-> hook, writes |-> writes, invalidates |-> invalidates, sets |-> {}]
Filling(hook, writes, invalidates, sets) ==
  [hook |-> hook, writes |-> writes, invalidates |-> invalidates, sets |-> sets]

Audit == <<"admin", "audit">>

-----------------------------------------------------------------------------
CampaignQueries ==
  { Query(<<"campaigns", "list">>, {"campaigns"}),
    Query(<<"campaigns", "detail", "id">>, {"campaigns"}),
    PolledWhile(<<"campaigns", "progress", "id">>, {"campaigns", "recipients"}),
    Query(<<"campaigns", "recipients", "id">>, {"recipients"}),
    Query(<<"campaigns", "preview", "id">>, {"campaigns", "recipients"}),
    Query(<<"campaigns", "estimate", "id">>, {"campaigns", "recipients"}) }

CampaignMutations ==
  LET CampaignMutation(hook, writes) == Mutation(hook, writes, {<<"campaigns">>})
  IN  { CampaignMutation("useCreateCampaign", {"campaigns"}),
        CampaignMutation("useUpdateCampaign", {"campaigns", "recipients"}),
        CampaignMutation("useDeleteCampaign", {"campaigns"}),
        CampaignMutation("useDispatchCampaign", {"campaigns", "recipients"}),
        CampaignMutation("useScheduleCampaign", {"campaigns"}),
        CampaignMutation("usePauseCampaign", {"campaigns"}),
        CampaignMutation("useResumeCampaign", {"campaigns"}),
        CampaignMutation("useCancelCampaign", {"campaigns", "recipients"}),
        CampaignMutation("useRetryCampaign", {"campaigns", "recipients"}) }

(* The wizard's copies of lists that other features own, under its own key.  *)
PickerQueries ==
  { Query(<<"campaigns", "pickers", "templates">>, {"templates"}),
    Query(<<"campaigns", "pickers", "phone-numbers">>, {"numbers"}),
    Query(<<"campaigns", "pickers", "segments">>, {"segments"}),
    Query(<<"campaigns", "pickers", "tags">>, {"tags"}),
    Query(<<"campaigns", "pickers", "attributes">>, {"attributes"}) }

InboxQueries ==
  { Polled(<<"inbox", "list", "query">>, {"conversations", "messages"}),
    Polled(<<"inbox", "conversation", "id">>, {"conversations"}),
    Polled(<<"inbox", "conversation", "id", "messages">>, {"messages"}),
    Query(<<"inbox", "conversation", "id", "notes">>, {"notes"}),
    Query(<<"quick-replies">>, {"quick replies"}),
    Query(<<"users", "assignable">>, {"users"}),
    Query(<<"phone-numbers">>, {"numbers"}) }

ConversationMutation(hook, writes) ==
  Mutation(hook, writes, {<<"inbox">>, <<"inbox", "conversation", "id">>})

(* The bulk hooks call the endpoint of one conversation for each selected.   *)
TriageMutations ==
  { ConversationMutation("useAssignConversation", {"conversations"}),
    ConversationMutation("useSetConversationStatus", {"conversations"}),
    Mutation("useBulkSetConversationStatus", {"conversations"}, {<<"inbox">>}),
    Mutation("useBulkAssignConversations", {"conversations"}, {<<"inbox">>}),
    Mutation("useBulkAddConversationTags", {"conversations"}, {<<"inbox">>}) }

ThreadMutations ==
  { ConversationMutation("useMarkRead", {"conversations"}),
    ConversationMutation("useAddNote", {"notes"}),
    ConversationMutation("useDeleteNote", {"notes"}),
    ConversationMutation("useAddConversationTags", {"conversations"}),
    ConversationMutation("useRemoveConversationTag", {"conversations"}),
    ConversationMutation("useSendMessage", {"messages", "conversations"}),
    ConversationMutation("useSendReaction", {"messages", "conversations"}) }

TaskQueries ==
  { Query(<<"tasks", "list", "query">>, {"tasks"}),
    Query(<<"tasks", "stats", "id">>, {"tasks"}) }

TaskMutations ==
  LET TaskMutation(hook) == Mutation(hook, {"tasks", "timeline"}, {<<"tasks">>})
  IN  { TaskMutation(hook) : hook \in
          {"useCreateTask", "useUpdateTask", "useCompleteTask", "useSkipTask",
           "useCancelTask", "useReopenTask", "useRescheduleTask", "useSnoozeTask",
           "useReassignTask", "useDeleteTask", "useBulkUpdateTasks",
           "useBulkDeleteTasks"} }

ContactQueries ==
  { Query(<<"contacts", "search", "query">>, {"contacts"}),
    PolledWhile(<<"contacts", "bulk", "id">>, {"progress"}),
    PolledWhile(<<"contacts", "export", "id">>, {"progress"}),
    PolledWhile(<<"contacts", "import", "id">>, {"progress"}) }

(* The bulk hooks answer 202: the rows change later, and a dialog that sees   *)
(* the job settle calls useInvalidateContacts, which drops the lists only.    *)
ContactMutations ==
  { Mutation("useBulkEditContacts", {"jobs"}, {}),
    Mutation("useBulkDeleteContacts", {"jobs"}, {}),
    Mutation("useStartContactExport", {"jobs"}, {}),
    Mutation("useStartContactImport", {"jobs"}, {}),
    Mutation("useInvalidateContacts", {"contacts"}, {<<"contacts", "search">>}) }

ProfileQueries ==
  { Query(<<"contact", "id">>, {"contacts"}),
    Query(<<"contact", "id", "timeline">>, {"timeline"}),
    Query(<<"custom-attributes">>, {"attributes"}),
    Query(<<"tags">>, {"tags"}),
    Query(<<"customer-profile", "id", "reactivation">>, {"cases"}),
    Query(<<"customer-profile", "id", "sim-orders">>, {"sim orders"}),
    Query(<<"customer-profile", "id", "activations">>, {"activations"}) }

ProfileMutations ==
  { Filling("useAddContactTags", {"contacts"}, {}, {<<"contact", "id">>}),
    Mutation("useRemoveContactTag", {"contacts"}, {<<"contact", "id">>}) }

ReactivationQueries ==
  { Query(<<"reactivation", "pipeline", "query">>, {"cases"}),
    Query(<<"reactivation", "events", "id">>, {"stage events"}),
    Query(<<"reactivation", "notes", "id">>, {"case notes"}),
    Query(<<"reactivation", "eligibility", "id">>, {"eligibility"}) }

ReactivationMutations ==
  LET CaseMutation(hook, writes) ==
        Mutation(hook, writes, {<<"reactivation">>, <<"tasks">>, <<"customer-profile">>})
  IN  { CaseMutation("useTransitionReactivation", {"cases", "stage events", "timeline"}),
        CaseMutation("useUpdateReactivation", {"cases", "tasks", "timeline"}),
        Mutation("useAddReactivationNote", {"case notes", "timeline"},
                 {<<"reactivation", "notes", "id">>, <<"customer-profile">>}),
        Mutation("useRecordEligibility", {"cases", "eligibility", "timeline"},
                 {<<"reactivation">>}) }

KycQueries ==
  { Query(<<"kyc", "operations", "query">>, {"kyc", "tasks"}),
    Query(<<"kyc", "contact", "id">>, {"kyc"}),
    Query(<<"kyc", "decisions", "id">>, {"kyc"}) }

(* Mutant: the tasks an appointment makes are forgotten. *)
KycMutations_KeepTasks ==
  { Mutation("useCreateKycAppointment", {"kyc", "tasks", "timeline"},
             {<<"kyc">>, <<"reactivation">>, <<"customer-profile">>}) }

KycMutations ==
  LET KycMutation(hook, writes) ==
        Mutation(hook, writes, {<<"kyc">>, <<"reactivation">>, <<"customer-profile">>, <<"tasks">>})
  IN  { KycMutation("useCreateKycCase", {"kyc", "timeline"}),
        KycMutation("useUpdateKycCase", {"kyc", "timeline"}),
        KycMutation("useSetKycDocumentReference", {"kyc", "timeline"}),
        KycMutation("useCreateKycAppointment", {"kyc", "tasks", "timeline"}),
        KycMutation("useRecordKycReview", {"kyc", "timeline"}),
        KycMutation("useRecordKycApproval", {"kyc", "cases", "stage events", "timeline"}) }

DocumentData ==
  LET DocumentMutation(hook) ==
        Mutation(hook, {"documents", "timeline"},
                 {<<"documents", "contact", "id">>, <<"documents", "id", "history">>,
                  <<"contact", "id", "timeline">>})
  IN  [ queries |-> { Query(<<"documents", "contact", "id", "query">>, {"documents"}),
                      Query(<<"documents", "id", "history">>, {"documents"}) },
        mutations |-> { DocumentMutation(hook) : hook \in
                          {"useCreateDocument", "useAddDocumentVersion", "useVerifyDocument",
                           "useArchiveDocument", "useExpireDocument"} } ]

-----------------------------------------------------------------------------
(* useAdminMutation takes the keys it invalidates.  The audit trail is named   *)
(* as written where a hook means its reader to see the entry at once.         *)
UserData ==
  [ queries |-> { Query(<<"admin", "users">>, {"users", "roles"}) },
    mutations |-> { Mutation(hook, {"users", "audit"}, {<<"admin", "users">>, Audit}) : hook \in
                      {"useCreateUser", "useUpdateUser", "useSetUserActive", "useDeleteUser"} } ]

RoleData ==
  [ queries |-> { Query(<<"admin", "roles">>, {"roles"}),
                  Query(<<"admin", "permissions">>, {"permissions"}) },
    mutations |->
      { Mutation(hook, {"roles", "audit"}, {<<"admin", "roles">>, Audit}) : hook \in
          {"useCreateRole", "useUpdateRole", "useDeleteRole"} }
      \cup { Mutation("useSetRolePermissions", {"roles", "audit"},
                      {<<"admin", "roles">>, <<"admin", "users">>, Audit}) } ]

ApiKeyData ==
  [ queries |-> { Query(<<"admin", "api-keys">>, {"api keys"}) },
    mutations |-> { Mutation(hook, {"api keys", "audit"}, {<<"admin", "api-keys">>, Audit}) : hook \in
                      {"useCreateApiKey", "useRevokeApiKey", "useRotateApiKey"} } ]

AuditQueries == { Query(Audit, {"audit"}) }

ChannelData ==
  [ queries |-> { Query(<<"channels", "wabas">>, {"wabas"}),
                  Query(<<"channels", "wabas", "id">>, {"wabas"}),
                  Query(<<"channels", "numbers">>, {"numbers"}),
                  Query(<<"channels", "numbers", "id">>, {"numbers"}),
                  Query(<<"channels", "numbers", "id", "health">>, {"numbers"}) },
    mutations |-> { Mutation(w[1], w[2], {<<"channels">>}) : w \in
                      { <<"useConnectWaba", {"wabas"}>>, <<"useUpdateWaba", {"wabas"}>>,
                        <<"useDisconnectWaba", {"wabas"}>>, <<"useSyncWaba", {"jobs"}>>,
                        <<"useUpdateNumber", {"numbers"}>>, <<"useRefreshNumber", {"numbers"}>> } } ]

TemplateData ==
  [ queries |-> { Query(<<"templates", "list">>, {"templates"}),
                  Query(<<"templates", "detail", "id">>, {"templates"}),
                  Query(<<"templates", "preview", "id">>, {"templates"}),
                  Query(<<"templates", "versions", "id">>, {"templates"}),
                  Query(<<"templates", "wabas">>, {"wabas"}) },
    mutations |-> { Mutation(w[1], w[2], {<<"templates">>}) : w \in
                      { <<"useCreateTemplate", {"templates"}>>, <<"useUpdateTemplate", {"templates"}>>,
                        <<"useDeleteTemplate", {"templates"}>>, <<"useSyncTemplates", {"jobs"}>> } } ]

(* Upload and delete; useReplaceMedia uploads, then deletes the old asset.    *)
MediaData ==
  [ queries |-> { Query(<<"media", "list">>, {"media"}),
                  Query(<<"media", "detail", "id">>, {"media"}),
                  PolledWhile(<<"media", "content", "id">>, {"media"}) },
    mutations |-> { Mutation(hook, {"media"}, {<<"media">>}) : hook \in
                      {"useUploadMedia", "useDeleteMedia", "useReplaceMedia"} } ]

PipelineData ==
  [ queries |-> { Query(<<"pipelines", "list">>, {"pipelines"}),
                  Query(<<"pipelines", "detail", "id">>, {"pipelines"}) },
    mutations |-> { Mutation(hook, {"pipelines", "audit"}, {<<"pipelines">>, Audit}) : hook \in
                      {"useCreatePipeline", "useUpdatePipeline", "useDeletePipeline",
                       "useAddStage", "useUpdateStage", "useDeleteStage"} } ]

SegmentData ==
  [ queries |-> { Query(<<"segments", "list">>, {"segments"}),
                  Query(<<"segments", "detail", "id">>, {"segments"}),
                  Query(<<"segments", "preview", "id">>, {"segments", "contacts"}) },
    mutations |-> { Mutation(hook, {"segments", "audit"}, {<<"segments">>, Audit}) : hook \in
                      {"useCreateSegment", "useUpdateSegment", "useDeleteSegment",
                       "useRefreshSegment"} } ]

AutomationQueries ==
  { Query(<<"automations", "list", "query">>, {"automations"}),
    Query(<<"automations", "detail", "id">>, {"automations"}),
    Query(<<"automations", "versions", "id">>, {"automations"}),
    PolledWhile(<<"automations", "runs", "id">>, {"runs"}),
    PolledWhile(<<"automations", "run", "id">>, {"runs"}),
    Query(<<"automations", "receipts", "id">>, {"receipts"}) }

(* A test run's answer fills the run's entry, every other answer the flow's.  *)
(* The job list's key is <<"operations", "jobs">>, not the <<"jobs">> that    *)
(* useCreateAutomationTestRun invalidates.                                    *)
AutomationMutations ==
  { Filling("useCreateAutomationTestRun", {"runs", "jobs", "audit"},
            {<<"automations", "runs", "id">>, <<"jobs">>, Audit},
            {<<"automations", "run", "id">>}) }
  \cup { Filling(hook, {"automations", "audit"},
                 {<<"automations">>, <<"automations", "versions", "id">>, Audit},
                 {<<"automations", "detail", "id">>}) : hook \in
           {"useCreateAutomation", "useUpdateAutomation", "useValidateAutomation",
            "usePublishAutomation", "useDisableAutomation", "useEnableAutomation",
            "useRestoreAutomation"} }

(* Facts are rolled up by the server; nothing the console writes is read.     *)
AnalyticsData ==
  [ queries |-> { Query(<<"analytics", kind, "query">>, {"facts"}) : kind \in
                    {"summary", "series", "comparison", "breakdown"} }
                \cup { Polled(<<"analytics", "freshness">>, {"facts"}),
                       PolledWhile(<<"analytics", "export", "id">>, {"progress"}) },
    mutations |-> { Mutation("useStartReportExport", {"jobs"}, {}) } ]

SettingsData ==
  [ queries |-> { Query(<<"settings", part>>, {part}) : part \in
                    {"organization", "values", "flags", "preferences"} },
    mutations |-> { Mutation(w[1], {w[2], "audit"}, {<<"settings", w[2]>>, Audit}) : w \in
                      { <<"useUpdateOrganization", "organization">>, <<"useUpdateSettings", "values">>,
                        <<"useUpdateFeatureFlag", "flags">>, <<"useUpdatePreferences", "preferences">> } } ]

OperationsData ==
  [ queries |-> { Polled(<<"operations", "jobs">>, {"jobs"}),
                  PolledWhile(<<"operations", "jobs", "id">>, {"jobs"}),
                  Polled(<<"operations", "queues">>, {"jobs"}) },
    mutations |-> { Mutation("useCancelJob", {"jobs", "audit"}, {<<"operations">>}) } ]

NotificationData ==
  [ queries |-> { Polled(<<"notifications", "list", "query">>, {"notifications"}),
                  Polled(<<"notifications", "unread">>, {"notifications"}) },
    mutations |-> { Mutation(hook, {"notifications"}, {<<"notifications">>}) : hook \in
                      {"useMarkNotificationRead", "useMarkAllNotificationsRead"} } ]

(* One entry per search term, over every list its user may read.              *)
WorkspaceSearchQueries ==
  { Query(<<"workspace-search", "query">>,
          {"contacts", "campaigns", "templates", "numbers", "users", "tasks", "media",
           "conversations", "messages"}) }

FeatureData == {DocumentData, UserData, RoleData, ApiKeyData, ChannelData, TemplateData,
                MediaData, PipelineData, SegmentData, AnalyticsData, SettingsData,
                OperationsData, NotificationData}

ConsoleQuerySet ==
  UNION { d.queries : d \in FeatureData }
  \cup CampaignQueries \cup PickerQueries \cup InboxQueries \cup TaskQueries
  \cup ContactQueries \cup ProfileQueries \cup ReactivationQueries \cup KycQueries
  \cup AuditQueries \cup AutomationQueries \cup WorkspaceSearchQueries

ConsoleMutationSet ==
  UNION { d.mutations : d \in FeatureData }
  \cup CampaignMutations \cup TriageMutations \cup ThreadMutations \cup TaskMutations
  \cup ContactMutations \cup ProfileMutations \cup ReactivationMutations \cup KycMutations
  \cup AutomationMutations
==============================================================================

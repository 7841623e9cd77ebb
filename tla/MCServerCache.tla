---------------------------- MODULE MCServerCache ----------------------------
(***************************************************************************)
(* The hooks of the console (ConsoleQueries) as the entries and mutations   *)
(* of ServerCache.                                                          *)
(***************************************************************************)
EXTENDS ServerCache, ConsoleQueries

Hooks(mutations) == {m.hook : m \in mutations}
Every == Hooks(ConsoleMutationSet)
DocumentHooks == Hooks(DocumentData.mutations)

(* The writes the console does not carry to a view at once; the view shows    *)
(* them when it is next fetched.  Each line is a dependency between features  *)
(* that no onSuccess names.                                                   *)
ConsoleLags ==
  { [hooks |-> Every, reads |-> UNION {q.reads : q \in WorkspaceSearchQueries},
     key |-> <<"workspace-search">>],
    [hooks |-> Every \ DocumentHooks, reads |-> {"timeline"},
     key |-> <<"contact", "id", "timeline">>],
    [hooks |-> Hooks(TaskMutations) \cup {"useUpdateReactivation"}, reads |-> {"tasks"},
     key |-> <<"kyc", "operations">>],
    [hooks |-> Every \ {"useCancelJob"}, reads |-> {"jobs"}, key |-> <<"operations">>],
    [hooks |-> {"useInvalidateContacts"}, reads |-> {"contacts"}, key |-> <<"contact">>],
    [hooks |-> Every, reads |-> {"contacts"}, key |-> <<"segments", "preview">>],
    [hooks |-> Hooks(ProfileMutations), reads |-> {"contacts"}, key |-> <<"contacts">>],
    [hooks |-> Every, reads |-> {"users"}, key |-> <<"users", "assignable">>],
    [hooks |-> {"useCreateRole", "useUpdateRole", "useDeleteRole"}, reads |-> {"roles"},
     key |-> <<"admin", "users">>],
    [hooks |-> Every, reads |-> {"wabas"}, key |-> <<"templates", "wabas">>],
    [hooks |-> Every, reads |-> {"numbers"}, key |-> <<"phone-numbers">>],
    [hooks |-> Every, reads |-> {"numbers", "templates", "segments"},
     key |-> <<"campaigns", "pickers">>],
    [hooks |-> {"useCancelJob"}, reads |-> {"audit"}, key |-> Audit],
    [hooks |-> {"useRecordEligibility"}, reads |-> {"cases"}, key |-> <<"customer-profile">>] }

==============================================================================

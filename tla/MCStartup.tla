------------------------------ MODULE MCStartup ------------------------------
(* Starts of the application for TLC: the declarations of the repository in *)
(* the order its apps are swept and in the reverse one, and every order of  *)
(* up to three of a few classes, sound ones and misdeclared ones.           *)
EXTENDS TotemApi

RealPlans == { TotemSchemas \o TotemServices \o c : c \in {TotemControllers, Reverse(TotemControllers)} }

(* Misdeclared variants. *)
Named_(d, name) == [d EXCEPT !.name = name]
TagBehindTheBase == Named_([ContactTagController EXCEPT !.bases = <<"ModelController", "DisplayName">>], "Behind")
TagAfterTheIds ==
    Named_([ContactTagController EXCEPT !.bases = <<"List", "Retrieve", "DisplayName", "Create", "BaseModelController">>],
           "After")
TagWithoutDisplayName == Named_([ContactTagController EXCEPT !.has = @ \ Named], "Unnamed")
TagWithoutScope == Named_([ContactTagController EXCEPT !.permission_map = @ \ {"display_name"}], "Unscoped")
TagWithoutBody == Named_([ContactTagController EXCEPT !.has = @ \ {"update_request_schema"}, !.update_request = None], "NoBody")
TagDropping == Named_([ContactTagController EXCEPT !.create_request = <<"ContactTag", "id">>], "Dropping")
TagOtherModel == Named_([ContactTagController EXCEPT !.has = @ \cup {"other_model"}], "Other")
UserAliasBody == Named_([UserController EXCEPT !.create_request = <<"User", "name">>], "AliasBody")
UserLaxBody == Named_([UserController EXCEPT !.create_request = <<"User", "lax">>], "LaxBody")
UserStrictAnswer == Named_([UserController EXCEPT !.responses = {<<"User", "create">>}], "StrictAnswer")
TagBadMethod == Named_([ContactTagController EXCEPT !.body = << generic("fetch", "/fetch/", "FETCH", "read") >>], "BadMethod")
TagExtras ==
    Named_([ContactTagController EXCEPT
               !.body = << put("replace", "/replace/", "update"), delete("clear", "/clear/", "delete"),
                           generic("probe", "/probe/", "HEAD", "read") >>], "Extras")
(* Without the permission of a deletion the class starts, and leaves it open. *)
TagOpenDelete == Named_([ContactTagController EXCEPT !.permission_map = @ \ {"delete"}], "OpenDelete")

Wrong == {TagBehindTheBase, TagAfterTheIds, TagWithoutDisplayName, TagWithoutScope, TagWithoutBody, TagDropping,
          TagOtherModel, UserAliasBody, UserLaxBody, UserStrictAnswer, TagBadMethod}
Right == {ContactTagController, UserController, ApiKeyController, UserRoleController, TagExtras, TagOpenDelete}

(* The same statement executed twice, the same name in another module, and *)
(* a service of a model already served. *)
Again(s) == [s EXCEPT !.id = Append(@, "again")]
SmallSchemas ==
    UserRoleSchemas \o UserSchemas \o ApiKeySchemas \o ContactTagSchemas \o
    << schema("ContactTag", "id", <<"id", "name">>, {}), named(schema("User", "lax", UserFields, {}), [username |-> "lax"]),
       Again(UserSchemas[3]), [Again(UserSchemas[4]) EXCEPT !.alias = << >>] >>
SmallServices ==
    << service("ContactTag", {"create", "update"}, {}), service("ApiKey", {"create"}, {}),
       service("User", {"create", "update"}, {}) >>
Roles == << service("UserRole", {}, {}) >>

Orders == SeqOf(Right \cup Wrong, 2) \cup {s \in SeqOf(Right, 3) : Len(s) = 3}
SmallPlans == { SmallSchemas \o SmallServices \o Roles \o o : o \in Orders }
BadSchemas == { [schema("ContactTag", "bad", <<>>, {}) EXCEPT !.exclude = {}],
                [schema("ContactTag", "bad", <<"name">>, {}) EXCEPT !.exclude = {"id"}],
                schema("ContactTag", "bad", <<"colour">>, {}),
                named(schema("ContactTag", "bad", <<"name">>, {}), [name |-> "both"]) }
OtherPlans ==
    { ContactTagSchemas \o <<s>> : s \in BadSchemas }
    \cup { SmallSchemas \o << service("User", {side}, {}) >> : side \in {"create", "update"} }
    \cup { SmallSchemas \o SmallServices \o Roles \o << v >> :
               v \in {service("User", {"create"}, {}), service("Menu", {}, {"Page"})} }

MCPlans == RealPlans \cup SmallPlans \cup OtherPlans
MCSound ==
    ToSet(TotemSchemas) \cup ToSet(TotemServices) \cup ToSet(TotemControllers) \cup Right \cup ToSet(SmallSchemas)
=============================================================================

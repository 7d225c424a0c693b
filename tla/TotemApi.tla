------------------------------ MODULE TotemApi ------------------------------
(***************************************************************************)
(* The declarations of the repository: the columns of its models, its      *)
(* schemas, its services and its controllers, app by app, as the           *)
(* statements a start executes (RouteTable).                               *)
(*                                                                         *)
(* A schema is named by its model and its side: "name" (display name),     *)
(* "read", "create", "body" (a create without the field its path sets),    *)
(* "update".                                                               *)
(***************************************************************************)
EXTENDS RouteTable

----------------------------------------------------------------------------
(* Columns.                                                                *)

col(kind) == [kind |-> kind, null |-> FALSE, blank |-> FALSE, pk |-> FALSE,
              default |-> "unset", target |-> None, output |-> None, stored |-> FALSE]
null(c) == [c EXCEPT !.null = TRUE, !.blank = TRUE]
blank(c) == [c EXCEPT !.blank = TRUE]
with(c, default) == [c EXCEPT !.default = default]
fk(m) == [col("fk") EXCEPT !.target = m]
m2m(m) == [col("m2m") EXCEPT !.target = m]
pk(c) == [c EXCEPT !.pk = TRUE]
ULIDField == with(col("char"), "callable")
computed(output) == [col("derived") EXCEPT !.output = output, !.stored = TRUE]
virtual(output) == [col("derived") EXCEPT !.output = output]

Country == [code |-> pk(col("char")), name |-> col("char")]
AddressMixin ==
    [f \in {"number", "street", "zip", "city"} |-> null(col("char"))] @@ [country |-> null(fk("Country"))]

ApiKey ==
    [id |-> pk(ULIDField), name |-> col("char"), secret_hash |-> col("char"),
     scope |-> blank(with(col("array"), "callable")), is_active |-> with(col("boolean"), "static"),
     expires_at |-> null(col("datetime")), created_at |-> col("datetime")]

UserRole ==
    [id |-> pk(col("char")), name |-> col("char"),
     permissions |-> blank(with(col("array"), "callable")), rules |-> blank(with(col("array"), "callable"))]
(* is_active and date_joined are AbstractUser's.                           *)
User ==
    [id |-> pk(with(col("uuid"), "callable")), username |-> col("char"), first_name |-> null(col("char")),
     last_name |-> null(col("char")), email |-> col("email"), avatar |-> null(col("file")),
     language |-> with(col("char"), "static"), user_type |-> with(col("char"), "static"),
     roles |-> m2m("UserRole"),
     is_active |-> with(col("boolean"), "static"), date_joined |-> with(col("datetime"), "callable")]

ContactTag == [id |-> pk(ULIDField), name |-> col("char"), color |-> with(col("integer"), "static")]
Contact ==
    AddressMixin @@
    [id |-> pk(ULIDField), first_name |-> null(col("char")), last_name |-> col("char"),
     email |-> null(col("email")), mobile |-> null(col("char")), birth_date |-> null(col("date")),
     tags |-> blank(m2m("ContactTag")), create_date |-> col("datetime"), update_date |-> col("datetime")]

Media ==
    [id |-> pk(ULIDField), name |-> col("char"), content |-> col("file"), checksum |-> col("char"),
     mimetype |-> null(col("char")), create_date |-> col("datetime")]
Menu ==
    [id |-> pk(ULIDField), name |-> col("char"), parent |-> null(fk("Menu")), parent_path |-> col("char"),
     create_date |-> col("datetime"), sequence |-> with(col("integer"), "static"),
     page |-> null(fk("Page")), link |-> null(col("char")), new_window |-> blank(with(col("boolean"), "static"))]
WebsitePublishedMixin ==
    [slug |-> col("slug"), is_published |-> with(col("boolean"), "static"), date_published |-> null(col("datetime"))]
Page ==
    WebsitePublishedMixin @@
    [id |-> pk(ULIDField), title |-> col("char"), content |-> col("text"), layout |-> with(col("char"), "static"),
     update_date |-> col("datetime"), user |-> null(fk("User"))]
Website ==
    [f \in {"menu", "homepage", "cover_media"} |->
        null(fk(CASE f = "menu" -> "Menu" [] f = "homepage" -> "Page" [] OTHER -> "Media"))] @@
    [f \in {"meta_authors", "meta_description", "footer", "side_bar_content"} |-> null(col("text"))] @@
    [id |-> pk(ULIDField), name |-> col("char"), headline |-> col("char"),
     theme |-> with(col("char"), "static"), theme_options |-> blank(with(col("json"), "callable"))]

Account ==
    [id |-> pk(ULIDField), name |-> col("char"), code |-> col("char"), description |-> null(col("text")),
     active |-> with(col("boolean"), "static"), total_debit |-> computed("decimal"),
     total_credit |-> computed("decimal"), balance |-> computed("decimal"),
     create_date |-> col("datetime"), update_date |-> col("datetime")]
AccountCategory ==
    [id |-> pk(ULIDField), name |-> col("char"), color |-> with(col("integer"), "static"),
     account |-> null(fk("Account"))]
AccountMovement ==
    [id |-> pk(ULIDField), account |-> fk("Account"), amount |-> col("decimal"), name |-> col("char"),
     description |-> null(col("text")), date |-> col("date"), reference |-> null(col("char")),
     category |-> null(fk("AccountCategory")), create_date |-> col("datetime"), update_date |-> col("datetime")]
Budget ==
    [id |-> pk(ULIDField), name |-> col("char"), user |-> null(fk("User")), account |-> fk("Account"),
     active |-> with(col("boolean"), "static"), note |-> null(col("text")),
     total_planned_amount |-> computed("decimal"), total_practical_amount |-> computed("decimal"),
     uncategorized_movement_count |-> virtual("integer"),
     create_date |-> col("datetime"), update_date |-> col("datetime")]
BudgetPosition ==
    [id |-> pk(ULIDField), sequence |-> with(col("integer"), "static"), budget |-> fk("Budget"),
     category |-> fk("AccountCategory"), name |-> computed("char"), color |-> computed("integer"),
     total_planned |-> computed("decimal"), total_practical |-> computed("decimal")]
BudgetLine ==
    [id |-> pk(ULIDField), name |-> col("char"), sequence |-> with(col("integer"), "static"),
     position |-> fk("BudgetPosition"), planned_amount |-> col("decimal"), budget |-> fk("Budget")]

TotemModels ==
    [Country |-> Country, ApiKey |-> ApiKey, UserRole |-> UserRole, User |-> User, ContactTag |-> ContactTag,
     Contact |-> Contact, Media |-> Media, Menu |-> Menu, Page |-> Page, Website |-> Website,
     Account |-> Account, AccountCategory |-> AccountCategory, AccountMovement |-> AccountMovement,
     Budget |-> Budget, BudgetPosition |-> BudgetPosition, BudgetLine |-> BudgetLine]

----------------------------------------------------------------------------
(* Schemas.                                                                *)

schema(m, side, fields, optional) ==
    [is |-> "schema", id |-> <<m, side>>, name |-> <<m, side>>, model |-> m, fields |-> fields, exclude |-> {},
     all |-> FALSE, optional |-> optional, custom |-> << >>, alias |-> << >>]
named(s, alias) == [s EXCEPT !.alias = alias]
(* Sub-schemas: the display name of the model each relation points at, the *)
(* row of a list for a media.                                              *)
nesting(s, models) ==
    [s EXCEPT !.custom = [f \in DOMAIN models |->
        [as |-> "nested", schema |-> <<models[f], IF models[f] = "Media" THEN "list" ELSE "name">>]]]
typed(s, f, as) == [s EXCEPT !.custom = (f :> [as |-> as, schema |-> None])]

CountrySchemas ==
    << named(schema("Country", "name", <<"code", "name">>, {}), [code |-> "response"]),
       named(schema("Country", "read", <<"code", "name">>, All), [code |-> "response"]) >>

ApiKeySchemas ==
    << typed(schema("ApiKey", "read", <<"id", "name", "scope", "is_active", "expires_at", "created_at">>, All),
             "scope", "list"),
       schema("ApiKey", "create", <<"name", "scope", "expires_at">>, {}) >>

UserRoleSchemas ==
    << schema("UserRole", "name", <<"id", "name">>, {}),
       schema("UserRole", "read", <<"id", "name", "permissions", "rules">>, All) >>

ProfileFields == <<"username", "last_name", "first_name", "email", "language", "avatar">>
UserFields == ProfileFields \o <<"user_type", "roles">>
UserSchemas ==
    << named(schema("User", "name", <<"id", "username">>, {}), [username |-> "response"]),
       nesting(named(schema("User", "read", <<"id", "is_active">> \o UserFields, All), [username |-> "response"]),
               [roles |-> "UserRole"]),
       named(schema("User", "create", UserFields, {}), [username |-> "strict"]),
       named(schema("User", "update", UserFields, All), [username |-> "strict"]),
       named(schema("User", "profile", <<"id">> \o ProfileFields, All), [username |-> "response"]),
       named(schema("User", "profile_update", ProfileFields, All), [username |-> "strict"]) >>

ContactTagSchemas ==
    << schema("ContactTag", "name", <<"id", "name", "color">>, {}),
       schema("ContactTag", "read", <<"id", "name", "color">>, All),
       schema("ContactTag", "create", <<"name", "color">>, {}),
       schema("ContactTag", "update", <<"name", "color">>, All) >>
ContactFields ==
    <<"first_name", "last_name", "email", "mobile", "birth_date", "number", "street", "zip", "city", "country", "tags">>
ContactSchemas ==
    << nesting(schema("Contact", "read", <<"id">> \o ContactFields \o <<"create_date", "update_date">>, All),
               [country |-> "Country", tags |-> "ContactTag"]),
       schema("Contact", "create", ContactFields, {}),
       schema("Contact", "update", ContactFields, All) >>

MediaSchemas ==
    << schema("Media", "name", <<"id", "name">>, {}),
       schema("Media", "read", <<"id", "name", "content", "checksum", "mimetype", "create_date">>, All),
       schema("Media", "list", <<"id", "name", "content", "mimetype">>, All),
       typed(schema("Media", "create", <<"content">>, {}), "content", "file") >>
PageFields == <<"title", "slug", "content", "is_published", "user", "layout">>
PageSchemas ==
    << schema("Page", "name", <<"id", "title", "slug">>, {}),
       nesting(schema("Page", "read", <<"id", "date_published", "update_date">> \o PageFields, All), [user |-> "User"]),
       schema("Page", "create", PageFields, {}),
       schema("Page", "update", PageFields, All) >>
MenuFields == <<"name", "parent", "sequence", "page", "link", "new_window">>
MenuSchemas ==
    << schema("Menu", "name", <<"id", "name">>, {}),
       nesting(schema("Menu", "read", <<"id", "parent_path", "create_date">> \o MenuFields, All),
               [parent |-> "Menu", page |-> "Page"]),
       schema("Menu", "create", MenuFields, {}),
       schema("Menu", "update", MenuFields, All) >>
WebsiteFields ==
    <<"name", "headline", "meta_authors", "meta_description", "menu", "homepage", "cover_media",
      "footer", "side_bar_content", "theme", "theme_options">>
WebsiteSchemas ==
    << nesting(schema("Website", "read", <<"id">> \o WebsiteFields, All),
               [menu |-> "Menu", homepage |-> "Page", cover_media |-> "Media"]),
       schema("Website", "update", WebsiteFields, All) >>

AccountFields == <<"code", "name", "description", "active">>
AccountSchemas ==
    << schema("Account", "name", <<"id", "code", "name">>, {}),
       schema("Account", "read",
              <<"id", "total_debit", "total_credit", "balance", "create_date", "update_date">> \o AccountFields, All),
       schema("Account", "create", AccountFields, {"description", "active"}),
       schema("Account", "update", AccountFields, All) >>
AccountCategorySchemas ==
    << schema("AccountCategory", "name", <<"id", "name", "color">>, {}),
       nesting(schema("AccountCategory", "read", <<"id", "name", "color", "account">>, All), [account |-> "Account"]),
       schema("AccountCategory", "create", <<"name", "color", "account">>, {"color", "account"}),
       schema("AccountCategory", "update", <<"name", "color">>, All) >>
MovementFields == <<"amount", "name", "description", "date", "reference", "category">>
AccountMovementSchemas ==
    << nesting(schema("AccountMovement", "read",
                      <<"id", "account", "create_date", "update_date">> \o MovementFields, All),
               [account |-> "Account", category |-> "AccountCategory"]),
       schema("AccountMovement", "create", <<"account">> \o MovementFields,
              {"description", "reference", "category"}),
       schema("AccountMovement", "update", MovementFields, All) >>
BudgetSchemas ==
    << schema("Budget", "name", <<"id", "name">>, {}),
       nesting(schema("Budget", "read",
                      <<"id", "name", "user", "account", "active", "note", "total_planned_amount",
                        "total_practical_amount", "uncategorized_movement_count", "create_date", "update_date">>, All),
               [user |-> "User", account |-> "Account"]),
       schema("Budget", "create", <<"name", "user", "account", "active", "note">>, {"user", "active", "note"}),
       schema("Budget", "update", <<"name", "user", "active", "note">>, All) >>
BudgetPositionSchemas ==
    << schema("BudgetPosition", "name", <<"id", "name", "color">>, {}),
       nesting(schema("BudgetPosition", "read",
                      <<"id", "sequence", "name", "color", "budget", "category", "total_planned", "total_practical">>, All),
               [budget |-> "Budget", category |-> "AccountCategory"]),
       schema("BudgetPosition", "create", <<"budget", "sequence", "category">>, {"sequence"}),
       schema("BudgetPosition", "body", <<"sequence", "category">>, {"sequence"}),
       schema("BudgetPosition", "update", <<"sequence", "category">>, All) >>
LineFields == <<"name", "sequence", "position", "planned_amount">>
BudgetLineSchemas ==
    << nesting(schema("BudgetLine", "read", <<"id", "budget">> \o LineFields, All),
               [budget |-> "Budget", position |-> "BudgetPosition"]),
       schema("BudgetLine", "create", <<"budget">> \o LineFields, {"sequence"}),
       schema("BudgetLine", "body", LineFields, {"sequence"}),
       schema("BudgetLine", "update", LineFields, All) >>

----------------------------------------------------------------------------
(* Services: the schemas they take and the relations they group by.        *)

service(m, sides, dimensions) ==
    [is |-> "service", model |-> m, dimensions |-> dimensions,
     create |-> IF "create" \in sides THEN <<m, "create">> ELSE None,
     update |-> IF "update" \in sides THEN <<m, "update">> ELSE None]

TotemServices ==
    << service("Country", {}, {}), service("ApiKey", {"create"}, {}),
       service("User", {"create", "update"}, {}), service("UserRole", {}, {}),
       service("Page", {"create", "update"}, {}), service("Menu", {"create", "update"}, {}),
       service("Media", {"create"}, {}), service("Website", {"update"}, {}),
       service("ContactTag", {"create", "update"}, {}), service("Contact", {"create", "update"}, {}),
       service("Account", {"create", "update"}, {}), service("AccountCategory", {"create", "update"}, {}),
       service("AccountMovement", {"create", "update"}, {"Account", "AccountCategory"}),
       service("Budget", {"create", "update"}, {}),
       service("BudgetPosition", {"create", "update"}, {"AccountCategory"}),
       service("BudgetLine", {"create", "update"}, {}) >>

----------------------------------------------------------------------------
(* Controllers.                                                            *)

Crud == {"read", "create", "update", "delete"}

controller(name, bases, permission_map, has) ==
    [is |-> "controller", name |-> name, model |-> name, bases |-> bases, body |-> <<>>, token |-> TRUE,
     permission_map |-> permission_map,
     has |-> has \cup {"model", "list_filter_schema"},
     create_request |-> IF "create_request_schema" \in has THEN <<name, "create">> ELSE None,
     update_request |-> IF "update_request_schema" \in has THEN <<name, "update">> ELSE None,
     responses |-> {<<name, "read">>}, ordering |-> {}, path_params |-> {}, filters |-> {}]
(* A controller of all the CRUD routes.                                    *)
CrudSchemas ==
    {"list_response_schema", "retrieve_response_schema", "create_request_schema", "update_request_schema"}
crud(name, mixins, more, has) ==
    controller(name, mixins \o <<"ModelController">>, Crud \cup more, CrudSchemas \cup has)
ordered(d, fields) == [d EXCEPT !.ordering = fields]
(* A controller without a model: routes of the body only.                  *)
plain(name, body) ==
    [controller(name, <<"BaseController">>, {}, {}) EXCEPT
        !.has = {}, !.responses = {}, !.body = body, !.token = FALSE]
Named == {"display_name_response_schema"}

CountryController ==
    controller("Country", <<"DisplayName", "List", "Retrieve", "BaseModelController">>, {"read", "display_name"},
               {"list_response_schema", "retrieve_response_schema"} \cup Named)

AuthController ==
    plain("Auth", << post("token_create", "/token/", None), post("token_refresh", "/token/refresh/", None),
                     post("token_revoke", "/token/revoke/", None) >>)
ApiKeyController ==
    [controller("ApiKey", <<"List", "Create", "Retrieve", "Delete", "BaseModelController">>,
                {"read", "create", "delete"},
                {"list_response_schema", "retrieve_response_schema", "create_request_schema"})
        EXCEPT !.body = <<override("create")>>]

UserRoleController ==
    [controller("UserRole", <<"DisplayName", "List", "BaseModelController">>, {"read", "display_name"},
                {"list_response_schema"} \cup Named)
        EXCEPT !.body = << get("permission_read", "/permissions/", "read"), get("access_rules_read", "/access-rules/", "read") >>]
UserController ==
    [ordered(crud("User", <<"DisplayName">>, {"display_name"}, Named),
             {"username", "email", "first_name", "is_active", "date_joined"})
        EXCEPT !.body = << get("profile_read", "/me/", "authenticated"),
                           patch("profile_update", "/me/", "authenticated") >>]

MediaController ==
    [ordered(controller("Media", <<"DisplayName", "Create", "List", "Retrieve", "Delete", "BaseModelController">>,
                        {"read", "create", "delete", "display_name"},
                        {"list_response_schema", "retrieve_response_schema", "create_request_schema"} \cup Named),
             {"name", "create_date"})
        EXCEPT !.body = <<override("create")>>, !.responses = {<<"Media", "read">>, <<"Media", "list">>}]
MenuController ==
    ordered(crud("Menu", <<"DisplayName", "Resequence">>, {"resequence", "display_name"}, Named \cup {"resequence"}),
            {"name", "sequence", "create_date"})
PageController ==
    ordered(crud("Page", <<"DisplayName">>, {"display_name"}, Named), 
            {"title", "slug", "is_published", "date_published", "update_date", "layout"})
ThemeController == plain("Theme", << get("list_themes", "/", "read"), get("list_layouts", "/layouts/", "read") >>)
WebsiteController ==
    [controller("Website", <<"Retrieve", "Update", "BaseModelController">>, {"read", "update"},
                {"retrieve_response_schema", "update_request_schema"})
        EXCEPT !.body = << get("current_read", "/current/", "read"), patch("current_update", "/current/", "update") >>]
HtmlWidgetController == plain("HtmlWidget", << get("list_widgets", "/", "read") >>)

ContactTagController == ordered(crud("ContactTag", <<"DisplayName">>, {"display_name"}, Named), {"name", "color"})
ContactController == ordered(crud("Contact", <<>>, {}, {}), 
            {"last_name", "first_name", "email", "city", "zip", "birth_date", "create_date", "update_date"})

AccountController ==
    ordered(crud("Account", <<"DisplayName">>, {"display_name"}, Named),
            {"code", "name", "active", "total_debit", "total_credit", "balance", "create_date"})
AccountCategoryController ==
    ordered(crud("AccountCategory", <<"DisplayName">>, {"display_name"}, Named), {"name", "color"})
AccountMovementController ==
    ordered(crud("AccountMovement", <<"GroupBy">>, {"group_by"}, {"group_by_dimensions"}),
            {"date", "amount", "name", "reference", "create_date"})
BUDGET_PERMISSION_MAP == {"resequence", "display_name", "group_by"}
BudgetController ==
    ordered(crud("Budget", <<"DisplayName">>, BUDGET_PERMISSION_MAP, Named),
            {"name", "active", "create_date", "total_planned_amount", "total_practical_amount"})
BudgetPositionController ==
    [ordered(crud("BudgetPosition", <<"DisplayName", "Resequence", "GroupBy">>, BUDGET_PERMISSION_MAP,
                  Named \cup {"resequence", "group_by_dimensions"}),
             {"sequence", "name", "total_planned", "total_practical"})
        EXCEPT !.create_request = <<"BudgetPosition", "body">>, !.path_params = {"budget"}, !.filters = {"name"}]
BudgetLineController ==
    [ordered(crud("BudgetLine", <<"Resequence">>, BUDGET_PERMISSION_MAP, {"resequence"}),
             {"sequence", "name", "planned_amount"})
        EXCEPT !.create_request = <<"BudgetLine", "body">>, !.path_params = {"budget"},
               !.filters = {"name", "position"}]

TenantController ==
    plain("Tenant", << post("create", "/tenant-create/", None), post("migrate", "/tenant-migrate/", None) >>)

(* The order the apps are swept in.                                        *)
TotemControllers ==
    << CountryController, AuthController, ApiKeyController, UserRoleController, UserController,
       MediaController, MenuController, PageController, ThemeController, WebsiteController, HtmlWidgetController,
       ContactTagController, ContactController,
       AccountController, AccountCategoryController, AccountMovementController,
       BudgetController, BudgetPositionController, BudgetLineController, TenantController >>
TotemSchemas ==
    CountrySchemas \o ApiKeySchemas \o UserRoleSchemas \o UserSchemas \o MediaSchemas \o PageSchemas \o MenuSchemas
    \o WebsiteSchemas \o ContactTagSchemas \o ContactSchemas \o AccountSchemas \o AccountCategorySchemas
    \o AccountMovementSchemas \o BudgetSchemas \o BudgetPositionSchemas \o BudgetLineSchemas

(* Only the sign-in and the tenants are declared without a scope: every     *)
(* other route of the repository has one, or the user its body asks for.    *)
ASSUME PermissionsAreDeclared ==
    \A d \in ToSet(TotemControllers) \ {AuthController, TenantController} :
        /\ d.token \/ ChainOps(d) = {}
        /\ \A o \in ChainOps(d) : o.scope \in d.permission_map
        /\ \A o \in DeclaredOps(d) : o.scope # None
=============================================================================

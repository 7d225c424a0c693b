----------------------------- MODULE RouteTable -----------------------------
(***************************************************************************)
(* The API layer at startup: class statements of controllers turn mixin    *)
(* methods and @route functions into routes (core/api/controller.py,       *)
(* core/api/route.py), CoreConfig.ready() checks them (core/api/           *)
(* validation.py), and Django resolves requests against the table.         *)
(*                                                                         *)
(* The methods of the mixins are function objects shared by every          *)
(* controller: the route and the annotations of the last controller that   *)
(* registered one stay on it.  `mark` and `annotations` are that state.    *)
(***************************************************************************)
EXTENDS SchemaFactory

CONSTANTS
    Plans,         \* the orders of class statements a start may execute
    Sound,         \* the statements that must not stop a start
    None

VARIABLES
    services,      \* ServiceRegistry._by_model: {model: service}
    plan,          \* the class statements of this start
    done,          \* how many of them were executed
    phase,         \* "importing", "serving" or "failed"
    mark,          \* {shared function: controller whose route it carries}
    annotations,   \* {shared function: controllers its annotations come from}
    table          \* the routers added to the API, in order

vars == <<schemaVars, services, plan, done, phase, mark, annotations, table>>

----------------------------------------------------------------------------
(* The mixins: the route each one registers, what it needs, and what it    *)
(* does without.                                                           *)

Op(fn, path, method, scope) == [fn |-> fn, path |-> path, method |-> method, scope |-> scope]

(* The path of one row: its last part may be anything.                     *)
IdPath == "/{id}/"

(* "skip": the mixin registers nothing; "refuse": the class statement      *)
(* raises ImproperlyConfigured.                                            *)
ListMixin == [needs |-> "list_response_schema", otherwise |-> "skip",
              ops |-> <<Op("list", "/", "GET", "read")>>]
RetrieveMixin == [needs |-> "retrieve_response_schema", otherwise |-> "skip",
                  ops |-> <<Op("retrieve", IdPath, "GET", "read")>>]
CreateMixin == [needs |-> "create_request_schema", otherwise |-> "skip",
                ops |-> <<Op("create", "/", "POST", "create"),
                          Op("default_values", "/default-values/", "GET", "create")>>]
UpdateMixin == [needs |-> "update_request_schema", otherwise |-> "skip",
                ops |-> <<Op("update", IdPath, "PATCH", "update")>>]
DeleteMixin == [needs |-> "model", otherwise |-> "skip",
                ops |-> <<Op("delete", IdPath, "DELETE", "delete")>>]
ResequenceMixin == [needs |-> "resequence", otherwise |-> "refuse",
                    ops |-> <<Op("resequence", "/resequence/", "POST", "resequence")>>]
DisplayNameMixin == [needs |-> "display_name_response_schema", otherwise |-> "refuse",
                     ops |-> <<Op("display_name", "/display-name/", "GET", "display_name")>>]
GroupByMixin == [needs |-> "group_by_dimensions", otherwise |-> "refuse",
                 ops |-> <<Op("group_by", "/group-by/", "POST", "group_by")>>]

Mixin == [List |-> ListMixin, Retrieve |-> RetrieveMixin, Create |-> CreateMixin,
          Update |-> UpdateMixin, Delete |-> DeleteMixin, Resequence |-> ResequenceMixin,
          DisplayName |-> DisplayNameMixin, GroupBy |-> GroupByMixin]

(* The bases of ModelController, in order.                                 *)
ModelController_RetrieveFirst ==
    <<"List", "Retrieve", "Create", "Update", "Delete", "BaseModelController">>
ModelController ==
    <<"List", "Create", "Retrieve", "Update", "Delete", "BaseModelController">>

(* The method resolution order behind the class itself: a mixin after the  *)
(* base comes behind BaseController, whose add_routes_to does not chain.   *)
Linear(d) == FlattenSeq([i \in DOMAIN d.bases |->
    IF d.bases[i] = "ModelController" THEN ModelController ELSE <<d.bases[i]>>])
Chain(d) ==
    LET l == Linear(d)
        b == {i \in DOMAIN l : l[i] \in {"BaseModelController", "BaseController"}}
    IN SubSeq(l, 1, Min(b) - 1)
Inherited(d) == {Linear(d)[i] : i \in DOMAIN Linear(d)} \cap DOMAIN Mixin

(* The functions of the mixins are found through the order, wherever the   *)
(* mixin is, unless the body of the class defines the name.                *)
OpsOf(m) == ToSet(Mixin[m].ops)
MixinFunctions == {o.fn : o \in UNION {OpsOf(m) : m \in DOMAIN Mixin}}
InheritedOps(d) == UNION {OpsOf(m) : m \in Inherited(d)}
ChainOps(d) == UNION {OpsOf(m) : m \in {m \in ToSet(Chain(d)) : {"model", Mixin[m].needs} \subseteq d.has}}
BodyNames_(d) == [i \in DOMAIN d.body |-> d.body[i].fn]
OwnFunctions(d) == ToSet(BodyNames_(d))

(* @route.get and its siblings: a function of the body, the method and the *)
(* permission of its route; an override of a mixin method carries none.    *)
route(fn, path, method, scope) == [fn |-> fn, path |-> path, method |-> method, scope |-> scope]
get(fn, path, scope) == route(fn, path, "GET", scope)
post(fn, path, scope) == route(fn, path, "POST", scope)
delete(fn, path, scope) == route(fn, path, "DELETE", scope)
patch(fn, path, scope) == route(fn, path, "PATCH", scope)
put(fn, path, scope) == route(fn, path, "PUT", scope)
generic(fn, path, method, scope) == route(fn, path, method, scope)
override(fn) == [fn |-> fn, path |-> None, method |-> None, scope |-> None]
DeclaredOps(d) == {o \in ToSet(d.body) : o.path # None}

(* Route.__init__ refuses an unknown method.                               *)
RouteMethods == {"POST", "PUT", "PATCH", "DELETE", "GET", "HEAD", "OPTIONS", "TRACE"}
RoutesRefused(d) == \E o \in DeclaredOps(d) : o.method \notin RouteMethods

----------------------------------------------------------------------------
(* TokenHasScopePermissionModelControllerMixin: the scope each generated   *)
(* route asks.  A key missing from permission_map is no check at all, and  *)
(* is refused on the opt-in routes.                                        *)

_get_action_permissions(d, action) == action \in d.permission_map
ScopeRequired(action) == action \in {"resequence", "display_name", "group_by"}

CrudGuard_UnlessDelete(d, o) ==
    IF d.token /\ _get_action_permissions(d, o.scope) /\ o.fn # "delete" THEN o.scope ELSE None
CrudGuard(d, o) == IF d.token /\ _get_action_permissions(d, o.scope) THEN o.scope ELSE None

ScopeRefused_NotDisplayName(d, o) ==
    d.token /\ o.scope \in {"resequence", "group_by"} /\ ~_get_action_permissions(d, o.scope)
ScopeRefused(d, o) ==
    d.token /\ ScopeRequired(o.scope) /\ ~_get_action_permissions(d, o.scope)

----------------------------------------------------------------------------
(* One class statement.                                                    *)

(* setattr on the class: a name keeps its place in __dict__.               *)
SetAttr(dict, name) == IF name \in ToSet(dict) THEN dict ELSE Append(dict, name)

(* The annotations a wrapper writes on the function: the path always, the  *)
(* body of a create or an update, the filters of a list only when the      *)
(* controller has a schema for them.                                       *)
Annotated(d, fn, old) ==
    [path |-> d.name,
     query |-> IF fn = "list" /\ "list_filter_schema" \in d.has THEN d.name ELSE old.query,
     body |-> IF fn \in {"create", "update", "resequence", "group_by"} THEN d.name ELSE old.body]
Unannotated == [path |-> None, query |-> None, body |-> None]

(* method_to_route_function, for the function o.fn of the class.  An       *)
(* overriding function is the class's own: its marks are nobody else's.    *)
method_to_route_function_NotRebound(d, st, o) ==
    LET shared == o.fn \notin OwnFunctions(d)
        old == IF shared THEN st.annotations[o.fn] ELSE Unannotated
        new == Annotated(d, o.fn, old)
    IN [st EXCEPT !.dict = SetAttr(@, o.fn),
                  !.mark[o.fn] = IF shared /\ @ = None THEN d.name ELSE @,
                  !.annotations[o.fn] = IF shared THEN new ELSE @,
                  !.registered = SetDefault(@, o.fn,
                      [ctrl |-> IF shared /\ st.mark[o.fn] # None THEN st.mark[o.fn] ELSE d.name,
                       op |-> o, ann |-> new, guard |-> CrudGuard(d, o)])]
method_to_route_function(d, st, o) ==
    LET shared == o.fn \notin OwnFunctions(d)
        old == IF shared THEN st.annotations[o.fn] ELSE Unannotated
        new == Annotated(d, o.fn, old)
    IN [st EXCEPT !.dict = SetAttr(@, o.fn),
                  !.mark[o.fn] = IF shared THEN d.name ELSE @,
                  !.annotations[o.fn] = IF shared THEN new ELSE @,
                  !.registered = SetDefault(@, o.fn,
                      [ctrl |-> d.name, op |-> o, ann |-> new, guard |-> CrudGuard(d, o)])]

(* add_routes_to of one mixin, when the class has a model.                 *)
MixinRoutes(d, st, m) ==
    IF "model" \notin d.has THEN st
    ELSE IF Mixin[m].needs \notin d.has
    THEN IF Mixin[m].otherwise = "refuse" THEN [st EXCEPT !.refused = TRUE] ELSE st
    ELSE IF \E o \in OpsOf(m) : ScopeRefused(d, o) THEN [st EXCEPT !.refused = TRUE]
    ELSE FoldLeft(LAMBDA x, o : method_to_route_function(d, x, o), st, Mixin[m].ops)

ChainRoutes(d) ==
    FoldLeft(LAMBDA st, m : MixinRoutes(d, st, m),
             [dict |-> BodyNames_(d), mark |-> mark, annotations |-> annotations,
              registered |-> << >>, refused |-> FALSE],
             Chain(d))

(* inspect.getmembers: every function found on the class that carries a    *)
(* route, whoever set it.                                                  *)
Members(d, st) ==
    {o.fn : o \in DeclaredOps(d)}
    \cup (DOMAIN st.registered)
    \cup {fn \in {o.fn : o \in InheritedOps(d)} \ OwnFunctions(d) : st.mark[fn] # None}

(* BaseController.add_routes_to: in the order of __dict__, each bound to   *)
(* the controller; a member the class itself does not hold raises.  A      *)
(* route keeps the place of its function in __dict__.                      *)
RouteOf(d, st, fn) ==
    IF fn \in DOMAIN st.registered THEN st.registered[fn]
    ELSE LET o == CHOOSE x \in ToSet(d.body) : x.fn = fn
         IN [ctrl |-> d.name, op |-> o, ann |-> [Unannotated EXCEPT !.path = d.name], guard |-> o.scope]
Ordered(d, st) == {i \in DOMAIN st.dict : st.dict[i] \in Members(d, st)}
Router(d, st) ==
    [name |-> d.name, decl |-> d, dict |-> st.dict,
     routes |-> [i \in Ordered(d, st) |-> RouteOf(d, st, st.dict[i])]]

(* The declared model of a class is its service's (BaseModelController).   *)
ModelRefused(d) == "other_model" \in d.has

ClassStatement(d) ==
    LET st == ChainRoutes(d)
    IN IF RoutesRefused(d) \/ ModelRefused(d) \/ st.refused \/ ~ Members(d, st) \subseteq ToSet(st.dict)
       THEN /\ phase' = "failed"
            /\ UNCHANGED <<mark, annotations, table>>
       ELSE /\ mark' = st.mark
            /\ annotations' = st.annotations
            /\ table' = Append(table, Router(d, st))
            /\ UNCHANGED phase

----------------------------------------------------------------------------
(* validate_controllers                                                    *)

Index(s, x) == CHOOSE i \in DOMAIN s : s[i] = x

StaticRoutes(d) ==
    {"Resequence", "DisplayName", "GroupBy"} \cup (IF "create_request_schema" \in d.has THEN {"Create"} ELSE {})
StaticName(m) == IF m = "Create" THEN "default_values" ELSE Mixin[m].ops[1].fn

_check_static_route_OnlyRegistered(r, m) == StaticName(m) \in ToSet(r.dict)
_check_static_route(r, m) ==
    /\ StaticName(m) \in ToSet(r.dict)
    /\ \A o \in {"retrieve", "update", "delete"} \cap ToSet(r.dict) :
           Index(r.dict, StaticName(m)) < Index(r.dict, o)

Fields(id) == bound[id].fields
RequestPairs(d) ==
    {p \in {<<d.create_request, services[d.model].create>>, <<d.update_request, services[d.model].update>>} :
        p[1] # None}

_check_request_schemas_NoDropped(d) ==
    \A p \in RequestPairs(d) :
        \A f \in DOMAIN Fields(p[1]) :
            LET n == Fields(p[1])[f].names IN ~n.serialized /\ ~ {"orm", "public"} \subseteq n.accepts
_check_request_schemas(d) ==
    \A p \in RequestPairs(d) :
        /\ \A f \in DOMAIN Fields(p[1]) :
               LET n == Fields(p[1])[f].names IN ~n.serialized /\ ~ {"orm", "public"} \subseteq n.accepts
        /\ p[2] = None \/ DOMAIN Fields(p[1]) \subseteq DOMAIN Fields(p[2])

_check_response_schemas(d) ==
    \A s \in d.responses : \A f \in DOMAIN Fields(s) : "orm" \in Fields(s)[f].names.accepts

_check_derived_fields(d) ==
    /\ \A s \in {d.create_request, d.update_request,
                 services[d.model].create, services[d.model].update} \ {None} :
           \A f \in DOMAIN Fields(s) : ~IsDerived(Column(d.model, f))
    /\ \A s \in d.responses : \A a \in bound[s].nested :
           \A f \in DOMAIN Fields(a) : ~IsVirtual(Column(bound[a].model, f))
    /\ \A f \in d.ordering : ~IsVirtual(Column(d.model, f))

_check_path_parameters(d) ==
    \A param \in d.path_params :
        /\ param \in DOMAIN Models[d.model]
        /\ param \notin d.filters
        /\ d.create_request = None \/ param \notin DOMAIN Fields(d.create_request)

Valid(r) ==
    LET d == r.decl
    IN "model" \in d.has =>
        /\ _check_request_schemas(d)
        /\ _check_response_schemas(d)
        /\ _check_derived_fields(d)
        /\ _check_path_parameters(d)
        /\ \A m \in StaticRoutes(d) \cap Inherited(d) : _check_static_route(r, m)

(* ServiceRegistry.validate: a writable relation and a relation grouped by *)
(* are resolved through a service of their target.                         *)
Relations(m, s) == {f \in DOMAIN Fields(s) : IsRelation(Column(m, f))}
ServiceValid(v) ==
    /\ \A s \in {v.create, v.update} \ {None} :
           /\ DOMAIN Fields(s) \subseteq DOMAIN Models[v.model]
           /\ \A f \in Relations(v.model, s) : Column(v.model, f).target \in DOMAIN services
    /\ v.dimensions \subseteq DOMAIN services

(* CoreConfig.ready(), once every api and services module is imported.     *)
ready ==
    /\ phase = "importing" /\ done = Len(plan)
    /\ phase' = IF /\ \A v \in Range(services) : ServiceValid(v)
                  /\ \A i \in DOMAIN table : Valid(table[i])
               THEN "serving" ELSE "failed"
    /\ UNCHANGED <<schemaVars, services, plan, done, mark, annotations, table>>

Executed == {plan[i] : i \in 1..done}
Importing(what) == phase = "importing" /\ done < Len(plan) /\ plan[done + 1].is = what
Statement == plan[done + 1]

(* The statements run in the order the apps are swept; a schema refused    *)
(* fails the import as a controller does.                                  *)
ImportSchema ==
    /\ Importing("schema")
    /\ done' = done + 1 /\ UNCHANGED plan
    /\ IF MetaRefused(Statement)
       THEN phase' = "failed" /\ UNCHANGED schemaVars
       ELSE ModelSchema(Statement) /\ UNCHANGED phase
    /\ UNCHANGED <<services, mark, annotations, table>>

(* ServiceRegistry.register: one service for a model.                      *)
ImportService ==
    /\ Importing("service")
    /\ done' = done + 1 /\ UNCHANGED plan
    /\ LET v == Statement
       IN IF v.model \in DOMAIN services /\ services[v.model] # v
          THEN phase' = "failed" /\ UNCHANGED services
          ELSE services' = SetDefault(services, v.model, v) /\ UNCHANGED phase
    /\ UNCHANGED <<schemaVars, mark, annotations, table>>

ImportController ==
    /\ Importing("controller")
    /\ done' = done + 1 /\ UNCHANGED plan
    /\ ClassStatement(Statement)
    /\ UNCHANGED <<schemaVars, services>>

Init ==
    /\ SchemaInit
    /\ services = << >>
    /\ plan \in Plans
    /\ done = 0
    /\ phase = "importing"
    /\ mark = [fn \in MixinFunctions |-> None]
    /\ annotations = [fn \in MixinFunctions |-> Unannotated]
    /\ table = <<>>

Next == ImportSchema \/ ImportService \/ ImportController \/ ready

Spec == Init /\ [][Next]_vars

(* What the declarations of a start keep, the misdeclared ones included.   *)
(* The type of a column is a class of JSON values, and a field that is     *)
(* optional is never required.                                             *)
ASSUME ColumnsAssumption ==
    \A m \in DOMAIN Models : \A f \in DOMAIN Models[m] :
        LET i == Converted(Column(m, f), TRUE, {})
        IN i.type \notin {"absent", "null", "refused", "unset"} /\ i.default # "required"

SchemasOf(q) == {d \in ToSet(q) : d.is = "schema"}
ControllersOf(q) == {d \in ToSet(q) : d.is = "controller"}

(* A schema statement is executed once, an annotation of its body is one   *)
(* of those that Annotation knows.                                         *)
ASSUME SchemasAssumption ==
    \A q \in Plans :
        /\ q \in Seq(ToSet(q))
        /\ \A d, e \in SchemasOf(q) : d.id = e.id => d = e
        /\ \A d \in SchemasOf(q) :
               /\ d.model \in DOMAIN Models
               /\ \A f \in DOMAIN d.custom : d.custom[f].as \in {"nested", "list", "file"}

(* The bases of a controller are mixins before the base controller; a list *)
(* has filters; the schemas of the requests are declared, and the one of   *)
(* an update requires nothing.                                             *)
ASSUME ControllersAssumption ==
    \A q \in Plans : \A d \in ControllersOf(q) :
        /\ Chain(d) \in Seq(Inherited(d))
        /\ {"model", "list_response_schema"} \subseteq d.has => "list_filter_schema" \in d.has
        /\ "model" \in d.has =>
               {d.create_request, d.update_request} \ {None} \subseteq {s.id : s \in SchemasOf(q)}
        /\ \A s \in SchemasOf(q) : s.id = d.update_request =>
               s.optional = All /\ \A f \in DOMAIN s.custom : s.custom[f].as # "file"

(* A controller with mixins has a model; a mixin behind the base is one    *)
(* that the checks look for.  The body of a class has a name once; what it *)
(* declares is no function of its mixins, has a path of its own and comes  *)
(* before what it overrides of the routes by id; what it overrides is of   *)
(* its mixins.                                                             *)
ASSUME RoutesAssumption ==
    \A q \in Plans : \A d \in ControllersOf(q) :
        /\ Inherited(d) # {} => "model" \in d.has
        /\ Inherited(d) \ ToSet(Chain(d)) \subseteq {"Create", "Resequence", "DisplayName", "GroupBy"}
        /\ d.body \in Seq(ToSet(d.body))
        /\ \A i, j \in DOMAIN d.body : d.body[i].fn = d.body[j].fn => i = j
        /\ \A i, j \in DOMAIN d.body :
               i < j /\ d.body[j].path # None => d.body[i].fn \notin {"retrieve", "update", "delete"}
        /\ \A o \in ToSet(d.body) \ DeclaredOps(d) : \E p \in ChainOps(d) : p.fn = o.fn
        /\ \A o \in DeclaredOps(d) :
               /\ o.path # IdPath
               /\ \A p \in InheritedOps(d) : p.fn # o.fn
               /\ \A p \in ChainOps(d) \cup DeclaredOps(d) :
                      p.path = o.path /\ p.method = o.method => p = o

(* None is no scope.                                                       *)
ASSUME ScopesAssumption == \A m \in DOMAIN Mixin : \A o \in OpsOf(m) : o.scope # None

----------------------------------------------------------------------------
(* Resolution of a request, by ninja and Django: the paths of a router in  *)
(* the order they were first registered, the first that matches, then the  *)
(* operation of the method: one route, or none.                            *)

Matches(pattern, path) == pattern = path \/ (pattern = IdPath /\ path # "/")
Resolved(r, path, method) ==
    LET hits == {i \in DOMAIN r.routes : Matches(r.routes[i].op.path, path)}
        view == {i \in DOMAIN r.routes : r.routes[i].op.path = r.routes[Min(hits)].op.path
                                         /\ r.routes[i].op.method = method}
    IN IF hits = {} \/ view = {} THEN {} ELSE {r.routes[Min(view)]}
Served == phase = "serving"
Routers == {table[i] : i \in DOMAIN table}

----------------------------------------------------------------------------
(* A route a controller inherits or declares is the one its path and       *)
(* method resolve to once the application serves: no fixed path is taken   *)
(* for an id, and none is missing (controller.py, the order of __dict__).  *)
PromisedRoutesServed ==
    Served => \A r \in Routers :
        /\ \A m \in Inherited(r.decl) : Mixin[m].needs \in r.decl.has =>
               \A o \in OpsOf(m) : \E x \in Resolved(r, o.path, o.method) : x.op.fn = o.fn
        /\ \A o \in DeclaredOps(r.decl) : \E x \in Resolved(r, o.path, o.method) : x.op.fn = o.fn

(* Whatever was imported before it, a route runs on its own controller and *)
(* reads its path, its query and its body with the schemas of that         *)
(* controller, although the function of a mixin is one object that every   *)
(* controller marks and annotates (method_to_route_function).              *)
RoutesKeepTheirController ==
    \A r \in Routers : \A i \in DOMAIN r.routes :
        /\ r.routes[i].ctrl = r.name
        /\ r.routes[i].ann.path = r.name
        /\ {r.routes[i].ann.query, r.routes[i].ann.body} \subseteq {r.name, None}

(* A start fails only over a statement that is wrong by itself: the sound  *)
(* ones start in every order of import, alone or together.                 *)
SoundClassesStart ==
    phase = "failed" => \E d \in Executed : d \notin Sound

(* A route is open only where its own class leaves it open, whatever other *)
(* controllers registered the same function with: the body declares it     *)
(* without a scope, the class has no tokens, or the action has no          *)
(* permission; the last never on a route of an opt-in mixin.               *)
OpenRoutesAreDeclared ==
    \A r \in Routers : \A x \in Range(r.routes) : x.guard = None =>
        \/ x.op \in DeclaredOps(r.decl) /\ x.op.scope = None
        \/ ~r.decl.token
        \/ /\ x.op.scope \notin r.decl.permission_map
           /\ \E m \in Inherited(r.decl) : x.op \in OpsOf(m) /\ Mixin[m].otherwise = "skip"

(* A body means what the document says: each documented name of a request  *)
(* schema reaches the row through the schema of the service, no other name *)
(* does, and an update keeps what the body leaves out.                     *)
BodiesReachTheRow ==
    Served => \A r \in Routers : "model" \in r.decl.has => \A p \in RequestPairs(r.decl) :
        \A f \in DOMAIN Fields(p[1]) :
            LET i == Fields(p[1])[f]
                c == Column(r.decl.model, f)
            IN /\ p[2] # None => f \in DOMAIN Fields(p[2])
               /\ Validated(i, i.names.public, i.type) = i.type
               /\ \A n \in BodyNames \ {i.names.public} : Validated(i, n, i.type) # i.type
               /\ p[1] = r.decl.update_request => Updated(i, c, i.names.public, "absent") = "kept"

(* What a request schema accepts the row takes: null only where the column *)
(* takes it, and a field may be left out only where the row can do without *)
(* it.  Omitting a relation never invents a key.                           *)
AcceptedBodiesFitTheRow ==
    Served => \A r \in Routers : "model" \in r.decl.has => \A p \in RequestPairs(r.decl) :
        \A f \in DOMAIN Fields(p[1]) :
            LET i == Fields(p[1])[f]
                c == Column(r.decl.model, f)
            IN \A v \in BodyValues(i) : Validated(i, i.names.public, v) # "refused" =>
                   (IF p[1] = r.decl.create_request
                    THEN Created(i, c, i.names.public, v) ELSE Updated(i, c, i.names.public, v)) # "refused"

(* The factory's cache gives each class statement the schema it declares,  *)
(* and two schemas under one name are one schema.                          *)
SchemasKeepTheirDeclaration ==
    /\ \A d \in Executed : d.is = "schema" /\ d.id \in DOMAIN bound => bound[d.id].fields = Definitions(d)
    /\ \A k, l \in DOMAIN cache : cache[k].name = cache[l].name => k = l

=============================================================================

--------------------------- MODULE SchemaFactory ---------------------------
(***************************************************************************)
(* The schema layer: a Django column becomes a pydantic field              *)
(* (core/schemas/fields.py), a class statement becomes a schema through    *)
(* the metaclass and the factory's cache (metaclass.py, factory.py), and   *)
(* what a body leaves out, sends as null or sends under another name       *)
(* reaches the service (services/mixins.py, services/base.py).             *)
(*                                                                         *)
(* A column is a record; a value of a body is its JSON class, "null", or   *)
(* "absent".  A name in a body is the ORM name, the public name of a       *)
(* rename, or the attname of a foreign key.                                *)
(***************************************************************************)
EXTENDS Naturals, Sequences, FiniteSets, SequencesExt, FiniteSetsExt

CONSTANTS
    Models,        \* {model: {column name: column record}}
    All            \* the "__all__" of optional_fields

VARIABLES
    cache,         \* SchemaFactory.schemas: {key: schema}
    schema_names,  \* SchemaFactory.schema_names, as <<name, suffix>>
    bound          \* the schema each class statement returned, by its id

schemaVars == <<cache, schema_names, bound>>

(* dict.setdefault: f with v at x, unless it has a value there.            *)
SetDefault(f, x, v) == [y \in DOMAIN f \cup {x} |-> IF y \in DOMAIN f THEN f[y] ELSE v]

----------------------------------------------------------------------------
(* The converters, by the class of the column.                             *)

TextTypes ==
    [char |-> "str", text |-> "str", slug |-> "str", email |-> "EmailStr", url |-> "AnyUrl"]
NumberTypes ==
    [auto |-> "int", integer |-> "int", float |-> "float", decimal |-> "Decimal", boolean |-> "bool"]
AddressTypes == [ip |-> "IPvAnyAddress"]
DocumentTypes == [json |-> "AnyObject", file |-> "str"]
DateTypes ==
    [date |-> "date", datetime |-> "datetime", time |-> "time", duration |-> "timedelta", uuid |-> "UUID4"]
ContribTypes == [cichar |-> "str", hstore |-> "Dict"]

ScalarTypes == TextTypes @@ NumberTypes @@ AddressTypes @@ DocumentTypes @@ DateTypes @@ ContribTypes

Column(m, f) == Models[m][f]
IsRelation(c) == c.kind \in {"fk", "m2m"}
IsVirtual(c) == c.kind = "derived" /\ ~c.stored
IsDerived(c) == c.kind = "derived"

(* convert_derived_field: the output field, always nullable.               *)
Described(c) == [c EXCEPT !.kind = c.output, !.null = TRUE, !.blank = TRUE]

(* convert_field_to_many_to_one borrows the type of the target's key,      *)
(* stripped of the Optional that converting a key adds.                    *)
PrimaryKey(m) == CHOOSE c \in Range(Models[m]) : c.pk
RelatedType(c) == ScalarTypes[PrimaryKey(c.target).kind]

PythonType(c) ==
    CASE c.kind = "fk"      -> RelatedType(c)
      [] c.kind = "m2m"     -> "List"
      [] c.kind = "array"   -> "List"
      [] c.kind = "derived" -> ScalarTypes[Described(c).kind]
      [] OTHER              -> ScalarTypes[c.kind]

(* The default of the field: what the column says wins over "may be left   *)
(* out"; a factory wins over both.                                         *)
FieldDefault(c, optional) ==
    CASE c.default # "unset"                         -> c.default
      [] c.pk \/ c.blank \/ c.null \/ optional       -> "None"
      [] OTHER                                       -> "required"

Nullable(c) == c.pk \/ c.null

(* _get_pydantic_fieldinfo_from_field                                      *)
FieldInfo_NullWhenOmittable(c, optional, names) ==
    [type |-> PythonType(c), default |-> FieldDefault(c, optional),
     nullable |-> FieldDefault(c, optional) = "None", names |-> names]
FieldInfo(c, optional, names) ==
    [type |-> PythonType(c), default |-> FieldDefault(c, optional),
     nullable |-> Nullable(c), names |-> names]

(* convert_db_field, on the described column for a derived one.            *)
Converted(c, optional, names) ==
    FieldInfo(IF IsDerived(c) THEN Described(c) ELSE c, optional, names)

----------------------------------------------------------------------------
(* Aliases: the names a field is validated from and the one it goes out    *)
(* under.                                                                  *)

(* _expand_alias                                                           *)
ExpandedAlias(c, alias) ==
    CASE alias = "response" -> [public |-> "public", serialized |-> TRUE,
                                accepts |-> {"public", "orm"} \cup (IF c.kind = "fk" THEN {"attname"} ELSE {})]
      [] alias = "strict"   -> [public |-> "public", serialized |-> FALSE, accepts |-> {"public"}]
      [] alias = "lax"      -> [public |-> "public", serialized |-> FALSE, accepts |-> {"public", "orm"}]
      [] OTHER              -> [public |-> "orm", serialized |-> FALSE, accepts |-> {"orm"}]

AliasOf(d, f) == IF f \in DOMAIN d.alias THEN d.alias[f] ELSE "plain"

(* MetaConf.from_schema_class and create_schema: refused declarations.     *)
MetaRefused(d) ==
    \/ d.fields = <<>> /\ d.exclude = {} /\ ~d.all
    \/ d.fields # <<>> /\ d.exclude # {}
    \/ ~ (ToSet(d.fields) \cup d.exclude) \subseteq DOMAIN Models[d.model]
    \/ \E f \in DOMAIN d.alias : d.alias[f] = "both"

(* _selected_model_fields: a virtual field only by name.                   *)
SelectedFields(d) ==
    IF d.fields # <<>> THEN ToSet(d.fields)
    ELSE {f \in DOMAIN Models[d.model] : ~IsVirtual(Column(d.model, f))} \ d.exclude

Optional(d, f) == d.optional = All \/ (d.optional # All /\ f \in d.optional)

(* An annotation of the class body replaces the column's own field: a      *)
(* nested schema, a list with a factory, or an uploaded file.              *)
Annotation(a) ==
    [type |-> a.as, default |-> CASE a.as = "list" -> "callable" [] a.as = "file" -> "required" [] OTHER -> "None",
     nullable |-> a.as = "nested", names |-> [public |-> "orm", serialized |-> FALSE, accepts |-> {"orm"}]]

(* The fields create_schema builds.                                        *)
Definitions(d) ==
    [f \in SelectedFields(d) |->
        IF f \in DOMAIN d.custom THEN Annotation(d.custom[f])
        ELSE Converted(Column(d.model, f), Optional(d, f),
                       ExpandedAlias(Column(d.model, f), AliasOf(d, f)))]

(* get_key                                                                 *)
Key_WithoutExtraKwargs(d) == <<d.model, d.name, d.fields, d.exclude, d.optional, d.custom>>
Key(d) == <<d.model, d.name, d.fields, d.exclude, d.optional, d.custom, d.alias>>

(* _get_unique_name: the name, or the first free suffix from 2.            *)
UniqueName(n, taken) ==
    IF <<n, 1>> \notin taken THEN <<n, 1>>
    ELSE <<n, Min({k \in 2..(Cardinality(taken) + 2) : <<n, k>> \notin taken})>>

(* ModelSchemaMetaclass.__new__: the class statement d.                    *)
ModelSchema(d) ==
    LET k == Key(d)
        s == [name |-> UniqueName(d.name, schema_names), model |-> d.model, fields |-> Definitions(d),
              nested |-> {d.custom[f].schema : f \in {f \in DOMAIN d.custom : d.custom[f].as = "nested"}}]
    IN IF k \in DOMAIN cache
       THEN /\ bound' = SetDefault(bound, d.id, cache[k])
            /\ UNCHANGED <<cache, schema_names>>
       ELSE /\ cache' = SetDefault(cache, k, s)
            /\ schema_names' = schema_names \cup {s.name}
            /\ bound' = SetDefault(bound, d.id, s)

SchemaInit ==
    /\ cache = << >>
    /\ schema_names = {}
    /\ bound = << >>

----------------------------------------------------------------------------
(* From a body to the values of a write, one field at a time: the fields   *)
(* do not meet before the row is built.                                    *)

(* What pydantic makes of value v sent under name n: refused, unset, or    *)
(* set to v.                                                               *)
Validated(i, n, v) ==
    LET sent == IF n \in i.names.accepts THEN v ELSE "absent"
    IN CASE sent = "absent" -> IF i.default = "required" THEN "refused" ELSE "unset"
         [] sent = "null"   -> IF i.nullable THEN "null" ELSE "refused"
         [] OTHER           -> IF sent = i.type \/ i.type = "AnyObject" THEN sent ELSE "refused"

(* CreateMixin._default_values: a None is a value on a nullable column.    *)
DefaultValue(i, c) ==
    CASE i.default = "required"                                    -> "none given"
      [] i.default = "None" /\ (c.kind = "m2m" \/ ~c.null)         -> "none given"
      [] i.default = "None"                                        -> "null"
      [] OTHER                                                     -> i.default

(* CreateMixin.create: the schema's value, then the service's default for  *)
(* a field left out.                                                       *)
CreateValue(i, c, n, v) ==
    LET got == Validated(i, n, v)
    IN CASE got = "refused"                                  -> "refused"
         [] got # "unset"                                    -> got
         [] DefaultValue(i, c) # "none given"                -> DefaultValue(i, c)
         [] i.default = "None"                               -> "null"
         [] OTHER                                            -> i.default

(* UpdateMixin.update: only what the body set (_input_values).             *)
UpdateValue(i, n, v) ==
    LET got == Validated(i, n, v)
    IN IF got = "unset" THEN "kept" ELSE got

(* to_internal_values: null is checked against the column, a relation is   *)
(* looked up by key, a many-to-many takes nothing for None.  A generated   *)
(* key names no record.  That Field.validate also refuses a blank value is *)
(* left out: a value here is unset, null or one of its type, never empty.  *)
InternalValue(c, x) ==
    CASE x = "null" /\ c.kind = "m2m"       -> "empty"
      [] x = "null" /\ ~c.null              -> "refused"
      [] x = "callable" /\ c.kind = "fk"     -> "refused"
      [] OTHER                              -> x

Created(i, c, n, v) ==
    LET x == CreateValue(i, c, n, v) IN IF x = "refused" THEN x ELSE InternalValue(c, x)
Updated(i, c, n, v) ==
    LET x == UpdateValue(i, n, v) IN IF x \in {"refused", "kept"} THEN x ELSE InternalValue(c, x)

BodyNames == {"orm", "public", "attname"}
BodyValues(i) == {"absent", "null", i.type}
============================================================================

---------------------------- MODULE PlannerInput ----------------------------
(***************************************************************************)
(* What the planner of crates/core reads: the configuration (config.rs),   *)
(* one list of statements or items with its gaps (model.rs), and the       *)
(* relations between statements (relations.rs).                            *)
(*                                                                         *)
(* Statement number i and i + 1 are separated by gap i; both count from 1. *)
(* The text of a statement is abstracted to the number of its lines and to *)
(* the set "says" of what the rules look for in it:                        *)
(*   continue  "continue;"            ok       "return Ok(());"            *)
(*   tuple     "let (", "let ["       ignored  "let _ = place.method()"    *)
(*   emit      "let _ = writeln!("    drop     "drop("                     *)
(*   error     "return Error::"       err      "return Err("               *)
(*   braces    a brace                nested   a brace, bracket or paren   *)
(*   okcall    "return Ok(f());"      mut      "&mut"                      *)
(*   flag      bool_flag_run's test of a derived flag                      *)
(*   work      arms_do_work           default  outermost_default           *)
(*   block     ends with "}"          closure  ends with "});"             *)
(* text and action are identities of the text of a statement and of the    *)
(* only action of a conditional, "" for none.                              *)
(***************************************************************************)
EXTENDS Integers, FiniteSets, SequencesExt

CONSTANTS Locals, Fields,   \* names of bindings and of projections
          Callees, Handlers, Texts

VARIABLES
    cfg,      \* the configuration
    list,     \* the statements, and what is fixed about their gaps
    blank     \* gap -> the blank lines that the rules see

-----------------------------------------------------------------------------
(* model.rs                                                                *)

Rules == {"bindings", "expressions", "control_flow", "after_block", "exit",
          "result_check", "item_spacing", "layout"}

CompactItems == {"import", "constant", "module", "alias", "compact"}
ItemKinds == CompactItems \cup {"function", "major", "opaque_item"}
Kinds == {"let", "assignment", "expression", "control", "block", "unsafe",
          "exit", "opaque"} \cup ItemKinds

IsBinding(u)  == u.kind \in {"let", "assignment"}
IsItem(u)     == u.kind \in ItemKinds
EndsBlock(u)  == u.kind \in {"control", "block", "unsafe"}
Ordinary(u)   == u.kind \in {"let", "assignment", "expression"}

Forms == {"other", "literal", "value", "call", "method", "branch", "conditional",
          "call_check", "macro", "loop", "closure", "let_else"}
Roles == {"ordinary", "assertion", "extraction", "function_call"}
Scopes == {"ordinary", "loop", "closure"}
Marks == {"continue", "ok", "tuple", "ignored", "emit", "drop", "error", "err",
          "braces", "nested", "okcall", "mut", "flag", "work", "default",
          "block", "closure"}

Places == [local : Locals, path : Seq(Fields), self : BOOLEAN]

\* Facts, Shape and Unit; None of an optional count is -1.
Units ==
    [kind : Kinds, form : Forms, role : Roles,
     known : BOOLEAN,
     definitions : SUBSET Places, reads : SUBSET Places, writes : SUBSET Places,
     receivers : SUBSET Places, mutating : SUBSET Places,
     callees : SUBSET Callees,
     header : SUBSET Places, captures : SUBSET Places,
     first_body : SUBSET Places, whole_body : SUBSET Places,
     check_of : SUBSET Places,
     tests : Nat \cup {-1}, mutable : BOOLEAN, fallible : BOOLEAN,
     handler : Handlers \cup {""}, exiting : BOOLEAN, body : Nat \cup {-1},
     strings : SUBSET Texts, pins : BOOLEAN,
     tail : BOOLEAN, guard : BOOLEAN, drain : BOOLEAN, loop_exit : BOOLEAN,
     bare_return : BOOLEAN, active : BOOLEAN, protected : BOOLEAN,
     rules : SUBSET Rules,
     lines : Nat \ {0}, says : SUBSET Marks,
     text : Texts \cup {""}, action : Texts \cup {""}]


\* UnitList and Gap; executable_count leaves items out (syntax/src/lower.rs).
IsList(l) ==
    /\ DOMAIN l = {"units", "scope", "protected", "joinable", "vertical"}
    /\ l.units \in Seq(Units)
    /\ Len(l.units) >= 1
    /\ l.scope \in Scopes
    /\ {l.protected, l.joinable, l.vertical} \subseteq [1..(Len(l.units) - 1) -> BOOLEAN]

U(i) == list.units[i]
Size == Len(list.units)
Gaps == 1..(Size - 1)
ExecutableCount == Cardinality({i \in 1..Size : ~IsItem(U(i))})

Multiline(u) == u.lines > 1

-----------------------------------------------------------------------------
(* config.rs                                                               *)

Bindings        == {"consecutive", "same-kind", "related", "multiline", "preserve"}
Expressions     == {"related", "multiline", "strict", "preserve"}
SelfFields      == {"distinct", "root"}
Overflow        == {"related-suffix", "whole-group"}
UseIn           == {"header", "header-or-first-body-statement", "whole-body"}
Separation      == {"separate", "preserve"}
GuardChain      == {"allow", "contextual", "separate"}
TailPolicy      == {"smart", "visual", "always-separate", "preserve"}
ImmediateCheck  == {"join", "ordinary"}

Configs ==
    [schema_version : Nat,
     enable : Seq(Rules), disable : Seq(Rules),
     bindings : Bindings, expressions : Expressions,
     same_receiver : BOOLEAN, shared_inputs : BOOLEAN, same_object : BOOLEAN,
     same_callee : BOOLEAN, consecutive_mutations : BOOLEAN,
     self_fields : SelfFields, max_before_control : Nat, overflow : Overflow,
     use_in : UseIn, join_related : BOOLEAN,
     after_block : Separation, guard_chain : GuardChain,
     related_continuation : BOOLEAN, compact_cleanup : BOOLEAN,
     short_block : Nat, tail : TailPolicy, attached_loop_exit : BOOLEAN,
     immediate_check : ImmediateCheck,
     functions : Separation, major_items : Separation,
     compact_declarations : BOOLEAN]

DefaultConfig ==
    [schema_version |-> 1,
     enable |-> <<>>, disable |-> <<>>,
     bindings |-> "consecutive", expressions |-> "related",
     same_receiver |-> TRUE, shared_inputs |-> TRUE, same_object |-> TRUE,
     same_callee |-> TRUE, consecutive_mutations |-> TRUE,
     self_fields |-> "root", max_before_control |-> 1, overflow |-> "whole-group",
     use_in |-> "header-or-first-body-statement", join_related |-> FALSE,
     after_block |-> "separate", guard_chain |-> "allow",
     related_continuation |-> TRUE, compact_cleanup |-> TRUE,
     short_block |-> 4, tail |-> "smart", attached_loop_exit |-> TRUE,
     immediate_check |-> "join",
     functions |-> "separate", major_items |-> "separate",
     compact_declarations |-> TRUE]

\* Config::validate
Valid(c) ==
    /\ c.schema_version = 1
    /\ {c.max_before_control, c.short_block} \subseteq 0..1024
    /\ IsInjective(c.enable) /\ IsInjective(c.disable)
    /\ ToSet(c.enable) \cap ToSet(c.disable) = {}

\* Config::enabled, and with the lint levels at the statement.
EnabledRules == ((Rules \ {"layout"}) \cup ToSet(cfg.enable)) \ ToSet(cfg.disable)
Enabled(u, rule) == rule \in EnabledRules /\ rule \in u.rules

-----------------------------------------------------------------------------
(* relations.rs                                                            *)

PlacesOverlap(p, q) ==
    /\ p.local = q.local
    /\ \/ cfg.self_fields = "root" /\ p.self /\ q.self
       \/ IsPrefix(p.path, q.path)
       \/ IsPrefix(q.path, p.path)

Meets(P, Q) == \E p \in P, q \in Q : PlacesOverlap(p, q)
CoveredBy(D, R) == R # {} /\ \A r \in R : Meets(D, {r})

Outputs(u) == u.definitions \cup u.writes \cup u.mutating
Mutates(u) == u.writes # {} \/ u.mutating # {}

DirectProducer(a, b) == a.known /\ b.known /\ Meets(Outputs(a), b.reads)

MergesFlows(a, b, earlier) ==
    \E r \in b.reads :
        /\ Meets(earlier, {r})
        /\ ~Meets(a.definitions \cup a.reads \cup a.writes, {r})

UniqueFeederBefore(edge) ==
    LET after  == U(edge + 1)
        inputs == IF after.kind = "control" THEN after.header ELSE after.reads
    IN  {i \in 1..edge : Meets(U(i).definitions, inputs)} = {edge}

ObjectAccesses(u) ==
    u.writes \cup (IF cfg.shared_inputs THEN u.reads ELSE {})
             \cup (IF cfg.same_receiver THEN u.receivers ELSE {})
SameObject(a, b) ==
    \E p \in ObjectAccesses(a), q \in ObjectAccesses(b) :
        /\ p.local = q.local
        /\ p.self \/ q.self => PlacesOverlap(p, q)

\* relationship, whose third value Unknown is neither of the two.
Connected(a, b) ==
    \/ Meets(Outputs(a), b.reads)
    \/ Meets(Outputs(b), a.reads)
    \/ cfg.same_receiver /\ Meets(a.receivers, b.receivers)
    \/ cfg.shared_inputs /\ Meets(a.reads, b.reads)
    \/ cfg.same_object /\ SameObject(a, b)
    \/ cfg.same_callee /\ a.callees \cap b.callees # {}
    \/ cfg.consecutive_mutations /\ Mutates(a) /\ Mutates(b)
Related(a, b)   == a.known /\ b.known /\ Connected(a, b)
Unrelated(a, b) == a.known /\ b.known /\ ~Connected(a, b)

ControlInputs(u) ==
    u.header \cup (CASE cfg.use_in = "header" -> {}
                     [] cfg.use_in = "whole-body" -> u.whole_body
                     [] OTHER -> u.first_body)
=============================================================================

------------------------------ MODULE MCPlanner ------------------------------
(***************************************************************************)
(* Statements as the source model and the compiler adapter describe them,  *)
(* and the lists that are planned: all well-formed lists over small pools  *)
(* of statements, with every combination of gaps, under configurations     *)
(* that between them choose every policy.                                  *)
(***************************************************************************)
EXTENDS Planner

MCLocals == {"p", "q", "s", "a", "b", "c", "n", "v", "w"}
MCFields == {"x", "y"}
MCCallees == {"send", "unwrap"}
MCHandlers == {"Fault"}
MCTexts == {"v.push(a);", "name"}

R(names) == {[local |-> x, path |-> <<>>, self |-> FALSE] : x \in names}
Self(f) == {[local |-> "s", path |-> <<f>>, self |-> TRUE]}

Plain(kind, form) ==
    [kind |-> kind, form |-> form, role |-> "ordinary", known |-> TRUE,
     definitions |-> {}, reads |-> {}, writes |-> {}, receivers |-> {},
     mutating |-> {}, callees |-> {}, header |-> {}, captures |-> {},
     first_body |-> {}, whole_body |-> {}, check_of |-> {}, tests |-> -1,
     mutable |-> FALSE, fallible |-> FALSE, handler |-> "", exiting |-> FALSE,
     body |-> -1, strings |-> {}, pins |-> FALSE, tail |-> FALSE,
     guard |-> FALSE, drain |-> FALSE, loop_exit |-> FALSE,
     bare_return |-> FALSE, active |-> TRUE, protected |-> FALSE,
     rules |-> Rules, lines |-> 1, says |-> {}, text |-> "", action |-> ""]

Let(x, form, reads) ==
    [Plain("let", form) EXCEPT !.definitions = R(x), !.reads = R(reads)]
Method(receiver, reads) ==
    [Plain("expression", "method") EXCEPT !.receivers = R({receiver}),
        !.mutating = R({receiver}), !.reads = R({receiver} \cup reads)]
Control(form, header, body) ==
    [Plain("control", form) EXCEPT !.lines = 3, !.header = R(header),
        !.first_body = R(body), !.whole_body = R(body), !.reads = R(header \cup body),
        !.says = {"block"}]
Guard(header) == [Control("conditional", header, {}) EXCEPT !.guard = TRUE, !.exiting = TRUE]
Exit(form, reads) == [Plain("exit", form) EXCEPT !.reads = R(reads)]
Item(kind, lines) == [Plain(kind, "other") EXCEPT !.lines = lines]

Lets ==
    ( \* let a = load(p);
      "a" :> [Let({"a"}, "call", {"p"}) EXCEPT !.role = "function_call"]
   @@ \* let a = load(p).map_err(Fault)?;
      "a?" :> [Let({"a"}, "method", {"p"}) EXCEPT !.fallible = TRUE, !.handler = "Fault"]
   @@ \* let a = load(
      \*     p, q);
      "a3" :> [Let({"a"}, "call", {"p", "q"}) EXCEPT !.lines = 3, !.role = "function_call"]
   @@ \* let b = a.name().map_err(Fault)?;
      "b" :> [Let({"b"}, "method", {"a"}) EXCEPT !.receivers = R({"a"}),
                  !.fallible = TRUE, !.handler = "Fault"]
   @@ \* let b = match a { .. };
      "b=match" :> [Let({"b"}, "branch", {"a"}) EXCEPT !.lines = 4, !.header = R({"a"}),
                        !.says = {"work"}]
   @@ \* let b = p == q;
      "b=flag" :> [Let({"b"}, "other", {"p", "q"}) EXCEPT !.says = {"flag"}]
   @@ \* let (b, c) = a;
      "b,c" :> [Let({"b", "c"}, "value", {"a"}) EXCEPT !.says = {"tuple"}]
   @@ \* let Some(c) = q else { return; };
      "c else" :> [Let({"c"}, "let_else", {"q"}) EXCEPT !.lines = 3]
   @@ \* let c = || p.len();
      "c=||" :> [Let({"c"}, "closure", {}) EXCEPT !.captures = R({"p"})]
   @@ \* let mut n = 0;
      "n" :> [Let({"n"}, "literal", {}) EXCEPT !.mutable = TRUE]
   @@ \* let mut v = Vec::new();
      "v" :> [Let({"v"}, "call", {}) EXCEPT !.mutable = TRUE, !.role = "function_call"]
   @@ \* the same under #[allow(statement_spacing_control_flow)]
      "allow v" :> [Let({"v"}, "call", {}) EXCEPT !.mutable = TRUE, !.role = "function_call",
                        !.rules = Rules \ {"control_flow"}]
   @@ \* let _ = w.flush();
      "_=flush" :> [Let({}, "method", {"w"}) EXCEPT !.receivers = R({"w"}),
                        !.mutating = R({"w"}), !.says = {"ignored"}]
   @@ \* let _ = writeln!(w, "{a}");
      "_=writeln" :> [Let({}, "macro", {"w", "a"}) EXCEPT !.known = FALSE, !.says = {"emit"}])

Operations ==
    ( \* n = a;
      "n=a" :> [Plain("assignment", "value") EXCEPT !.writes = R({"n"}), !.reads = R({"n", "a"})]
   @@ \* self.x = p;
      "s.x=p" :> [Plain("assignment", "value") EXCEPT !.writes = Self("x"),
                      !.reads = Self("x") \cup R({"p"})]
   @@ \* self.y.push(q);
      "s.y" :> [Plain("expression", "method") EXCEPT !.receivers = Self("y"),
                    !.mutating = Self("y"), !.reads = Self("y") \cup R({"q"})]
   @@ "v.push(a)" :> [Method("v", {"a"}) EXCEPT !.text = "v.push(a);"]
   @@ "v.clear()" :> Method("v", {})
   @@ "w.put(b)"  :> [Method("w", {"b"}) EXCEPT !.strings = {"name"}]
   @@ "w.open()"  :> Method("w", {})
   @@ "send(p)" :> [Plain("expression", "call") EXCEPT !.reads = R({"p"}),
                        !.callees = {"send"}, !.role = "function_call"]
   @@ "send(q)" :> [Plain("expression", "call") EXCEPT !.reads = R({"q"}),
                        !.callees = {"send"}, !.role = "function_call"]
   @@ \* check(p)?;
      "check(p)?" :> [Plain("expression", "call") EXCEPT !.reads = R({"p"}),
                          !.fallible = TRUE, !.role = "function_call"]
   @@ "log!" :> [Plain("expression", "macro") EXCEPT !.known = FALSE]
   @@ \* send(p) under #[allow(statement_spacing_expressions)]
      "allow" :> [Plain("expression", "call") EXCEPT !.reads = R({"q"}),
                      !.rules = Rules \ {"expressions", "bindings"}]
   @@ \* #[cfg(other)] send(p);
      "cfg" :> [Plain("expression", "call") EXCEPT !.active = FALSE, !.known = FALSE, !.rules = {}])

Controls ==
    ( \* if a.is_none() { return; }
      "if !a" :> [Guard({"a"}) EXCEPT !.check_of = R({"a"}), !.receivers = R({"a"})]
   @@ \* the same under #[allow(statement_spacing_control_flow)]
      "allow if !a" :> [Guard({"a"}) EXCEPT !.rules = Rules \ {"control_flow", "result_check"}]
   @@ \* if p > n { return; }
      "if p>n" :> Guard({"p", "n"})
   @@ \* if p.bad() { return; }
      "if p" :> [Guard({"p"}) EXCEPT !.receivers = R({"p"})]
   @@ \* if let Some(x) = find(q) { w.put(x); }
      "if let q" :> [Control("call_check", {"q"}, {"w"}) EXCEPT !.mutating = R({"w"})]
   @@ \* if q { v.push(a); }
      "if q" :> [Control("conditional", {"q"}, {"v", "a"}) EXCEPT !.receivers = R({"v"}),
                     !.mutating = R({"v"}), !.action = "v.push(a);"]
   @@ \* if q { v.push(n); n += 1; }
      "if q n" :> [Control("conditional", {"q"}, {"v", "n"}) EXCEPT !.receivers = R({"v"}),
                       !.mutating = R({"v"}), !.writes = R({"n"})]
   @@ \* for i in p { v.push(i); n += 1; }
      "for p" :> [Control("loop", {"p"}, {"v"}) EXCEPT !.body = 2, !.mutating = R({"v"}),
                      !.writes = R({"n"}), !.reads = R({"p", "v", "n"})]
   @@ \* for i in a { send(i); }
      "for a" :> [Control("loop", {"a"}, {}) EXCEPT !.body = 1]
   @@ \* for i in p { .. three statements, n += i, a macro .. }
      "for p!" :> [Control("loop", {"p"}, {"n"}) EXCEPT !.body = 3, !.known = FALSE,
                       !.writes = R({"n"})]
   @@ \* for _ in v.drain(..) {}
      "drain" :> [Control("loop", {"v"}, {}) EXCEPT !.body = 0, !.drain = TRUE,
                      !.mutating = R({"v"})]
   @@ \* match a { .. }
      "match a" :> Control("branch", {"a"}, {"w"})
   @@ \* loop { macro!(); }
      "loop!" :> [Control("loop", {}, {}) EXCEPT !.body = 1, !.known = FALSE]
   @@ \* unsafe { init(p); }
      "unsafe" :> [Plain("unsafe", "other") EXCEPT !.lines = 3, !.reads = R({"p"})]
   @@ \* { .. }
      "block" :> [Plain("block", "other") EXCEPT !.lines = 3, !.known = FALSE])

Ends ==
    ( "return Ok(())" :> [Exit("call", {}) EXCEPT !.says = {"ok", "nested"}]
   @@ "return a" :> Exit("value", {"a"})
   @@ \* return finish(a, q);
      "return f(a)" :> [Exit("call", {"a", "q"}) EXCEPT !.says = {"nested"}]
   @@ \* return Err(Fault { a, q });
      "return Err(a)" :> [Exit("call", {"a", "q"}) EXCEPT !.lines = 3,
                              !.says = {"err", "braces", "nested"}]
   @@ "return" :> [Exit("other", {}) EXCEPT !.bare_return = TRUE]
   @@ "continue" :> [Exit("other", {}) EXCEPT !.loop_exit = TRUE, !.says = {"continue"}]
   @@ \* v
      "v." :> [Plain("expression", "value") EXCEPT !.tail = TRUE, !.reads = R({"v"})]
   @@ \* if q { a } else { p }
      "if q." :> [Control("conditional", {"q"}, {"a", "p"}) EXCEPT !.tail = TRUE]
   @@ \* v.push(a)
      "v.push." :> [Method("v", {"a"}) EXCEPT !.tail = TRUE])

Declarations ==
    ( "use" :> Item("import", 1) @@ "const" :> Item("constant", 1)
   @@ "const3" :> Item("constant", 3) @@ "mod" :> Item("module", 1)
   @@ "fn" :> Item("function", 3) @@ "struct" :> Item("major", 3))

\* In a #[test] of six statements.
Test(u) == [u EXCEPT !.tests = 6]
Tests ==
    ( "t:a" :> Test([Let({"a"}, "call", {"p"}) EXCEPT !.role = "function_call"])
   @@ "t:v" :> Test([Let({"v"}, "call", {}) EXCEPT !.mutable = TRUE, !.role = "function_call"])
   @@ \* let b = a.unwrap();
      "t:b" :> Test([Let({"b"}, "method", {"a"}) EXCEPT !.role = "extraction"])
   @@ "t:push" :> Test(Method("v", {"a"}))
   @@ "t:send" :> Test([Plain("expression", "call") EXCEPT !.reads = R({"p"}),
                            !.callees = {"send"}, !.role = "function_call"])
   @@ \* assert_eq!(a, 1);
      "t:pin" :> Test([Plain("expression", "macro") EXCEPT !.known = FALSE,
                           !.role = "assertion", !.pins = TRUE, !.reads = R({"a"})])
   @@ \* assert!(v.contains(&p));
      "t:assert" :> Test([Plain("expression", "macro") EXCEPT !.known = FALSE,
                              !.role = "assertion", !.reads = R({"v", "p"})])
   @@ \* the same without a semicolon at the end
      "t:assert." :> Test([Plain("expression", "macro") EXCEPT !.known = FALSE,
                              !.role = "assertion", !.reads = R({"v", "p"}), !.tail = TRUE]))

Statements == Lets @@ Operations @@ Controls @@ Ends @@ Declarations @@ Tests

-----------------------------------------------------------------------------
(* Lists.                                                                  *)

Mentioned(u) == LocalsOf(u.definitions \cup u.reads \cup u.writes \cup u.captures)

\* Bindings are defined once, before their use; exits and tails come last.
WellFormed(units, scope) ==
    /\ \A i, j \in 1..Len(units) :
           i < j => LocalsOf(units[j].definitions) \cap Mentioned(units[i]) = {}
    /\ \A i \in 1..(Len(units) - 1) : units[i].kind # "exit" /\ ~units[i].tail
    /\ \A i \in 1..Len(units) : units[i].loop_exit => scope = "loop"

\* Gaps by name: a comment, a statement on the same line, a macro call.
Gap ==
    ( "tight"   :> [blank |-> 0, joinable |-> TRUE,  vertical |-> TRUE,  protected |-> FALSE]
   @@ "blank"   :> [blank |-> 1, joinable |-> TRUE,  vertical |-> TRUE,  protected |-> FALSE]
   @@ "wide"    :> [blank |-> 2, joinable |-> TRUE,  vertical |-> TRUE,  protected |-> FALSE]
   @@ "comment" :> [blank |-> 1, joinable |-> FALSE, vertical |-> TRUE,  protected |-> FALSE]
   @@ "inline"  :> [blank |-> 0, joinable |-> TRUE,  vertical |-> FALSE, protected |-> FALSE]
   @@ "keep"    :> [blank |-> 2, joinable |-> TRUE,  vertical |-> TRUE,  protected |-> TRUE])

Lists(pool, n, scope) == {units \in [1..n -> pool] : WellFormed(units, scope)}

Scenario(c, pool, n, scope, gaps) ==
    [cfg |-> c, pool |-> pool, size |-> n, scope |-> scope, gaps |-> gaps]

\* What a scenario stands for; the block of "a" has a blank line at its edge.
Planned(sc, statement, gap) ==
    {[cfg |-> sc.cfg, edge |-> IF units[1] = statement["a"] THEN 1 ELSE 0,
      list |-> [units |-> units, scope |-> sc.scope,
                protected |-> [i \in 1..(sc.size - 1) |-> gap[g[i]].protected],
                joinable  |-> [i \in 1..(sc.size - 1) |-> gap[g[i]].joinable],
                vertical  |-> [i \in 1..(sc.size - 1) |-> gap[g[i]].vertical]],
      blank |-> [i \in 1..(sc.size - 1) |-> gap[g[i]].blank]] :
        units \in Lists({statement[name] : name \in sc.pool}, sc.size, sc.scope),
        g \in [1..(sc.size - 1) -> sc.gaps]}

-----------------------------------------------------------------------------
(* Configurations.                                                         *)

Default == DefaultConfig
\* The repository's own dylint.toml.
Own == [DefaultConfig EXCEPT !.enable = <<"layout">>,
          !.bindings = "multiline", !.expressions = "multiline", !.join_related = TRUE,
          !.self_fields = "distinct", !.guard_chain = "contextual",
          !.related_continuation = FALSE, !.tail = "visual"]
Dense == [DefaultConfig EXCEPT !.join_related = TRUE, !.bindings = "related",
          !.max_before_control = 2, !.overflow = "related-suffix",
          !.use_in = "whole-body", !.short_block = 1]
Sparse == [DefaultConfig EXCEPT !.expressions = "strict", !.bindings = "same-kind",
          !.tail = "always-separate", !.guard_chain = "separate", !.use_in = "header",
          !.same_callee = FALSE, !.same_object = FALSE, !.short_block = 1]
Kept == [DefaultConfig EXCEPT !.bindings = "preserve", !.expressions = "preserve",
          !.after_block = "preserve", !.tail = "preserve", !.functions = "preserve",
          !.max_before_control = 0, !.immediate_check = "ordinary"]
Quiet == [DefaultConfig EXCEPT !.disable = <<"control_flow", "exit", "after_block">>,
          !.bindings = "related", !.short_block = 1, !.consecutive_mutations = FALSE]
Relating == [DefaultConfig EXCEPT !.bindings = "related"]
Fluent == [Own EXCEPT !.expressions = "related", !.related_continuation = TRUE]
Invalid == [DefaultConfig EXCEPT !.enable = <<"exit">>, !.disable = <<"exit">>]

-----------------------------------------------------------------------------
(* The lists that are planned.                                             *)

Flow     == {"a", "b", "if !a", "w.put(b)", "send(p)", "match a", "return a"}
Counting == {"n", "v", "v.push(a)", "if q", "for p", "if p>n"}
Calls    == {"w.open()", "a", "b", "w.put(b)", "if let q", "v."}
Setups   == {"a?", "b", "b,c", "b=flag", "_=flush", "for a", "return f(a)"}
Objects  == {"s.x=p", "s.y", "a", "n=a", "if q", "return"}
Blocks   == {"b=match", "a3", "c else", "w.put(b)", "v.push(a)", "return Err(a)", "log!"}
InTest   == {"t:a", "t:v", "t:b", "t:push", "t:send", "t:pin", "t:assert."}
Feeders  == {"n", "allow v", "if q n", "for p"}
Loops    == {"n", "v", "for p!", "if p>n", "drain", "unsafe"}
Marked   == {"a", "allow", "cfg", "allow if !a", "if !a", "send(q)"}
Ended    == {"a", "c=||", "check(p)?", "if p", "block", "loop!", "return Ok(())", "if q.", "v.push."}
Gaps2    == {"tight", "wide"}

Scenarios == {
    \* Four statements without blank lines.
    Scenario(Own, Flow, 4, "ordinary", {"tight"}),
    Scenario(Fluent, Calls, 4, "ordinary", {"tight"}),
    Scenario(Default, Counting, 4, "ordinary", {"tight"}),
    Scenario(Dense, Setups, 4, "ordinary", {"tight"}),
    Scenario(Own, InTest, 4, "ordinary", {"tight"}),
    Scenario(Own, Loops, 4, "ordinary", {"tight"}),
    \* A separated feeder takes a binding out of its run: a join is not kept.
    Scenario(Relating, Feeders, 3, "ordinary", {"tight"}),
    \* Three, with blank lines, comments, macro calls and shared lines.
    Scenario(Dense, Flow, 3, "ordinary", {"tight", "comment"}),
    Scenario(Default, Setups, 3, "ordinary", {"blank", "wide"}),
    Scenario(Default, Flow, 3, "ordinary", {"tight", "inline"}),
    Scenario(Kept, Objects, 3, "ordinary", Gaps2),
    Scenario(Own, Objects, 3, "ordinary", Gaps2),
    Scenario(Sparse, Blocks, 3, "ordinary", Gaps2),
    Scenario(Own, Blocks, 3, "ordinary", Gaps2),
    Scenario(Quiet, Ended, 3, "closure", Gaps2),
    Scenario(Own, Ended, 3, "ordinary", Gaps2),
    Scenario(Own, Marked, 3, "ordinary", {"tight", "keep"}),
    Scenario(Default, Marked, 3, "ordinary", {"blank", "keep"}),
    Scenario(Own, {"a", "if !a", "for a", "continue", "_=writeln", "v.clear()"}, 3,
                  "loop", Gaps2),
    Scenario(Default, DOMAIN Declarations \cup {"a"}, 3, "ordinary", {"tight", "wide"}),
    Scenario(Invalid, {"a"}, 1, "ordinary", {"tight"})}

MCInputs == {Planned(x[1], x[2], x[3]) : x \in Scenarios \X {Statements} \X {Gap}}
=============================================================================

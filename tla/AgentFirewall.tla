---------------------------- MODULE AgentFirewall ----------------------------
(***************************************************************************)
(* The enforcing half of the sensor agent (public/agent/aegis-agent.js):   *)
(* every enforceEvery seconds a pass pulls the console's block list and    *)
(* rewrites the host firewall, command by command.  The timer does not     *)
(* wait for a pass, so that a slow one overlaps the next.                  *)
(***************************************************************************)
EXTENDS Integers, Sequences, FiniteSets, SequencesExt

CONSTANTS
  Addresses,    \* the addresses a console may publish
  V6,           \* those of them that are IPv6
  Host,         \* addresses of this host
  Console,      \* addresses of the console
  Passes,       \* passes that may be in flight at once
  Platform,     \* "linux", "win32" or "darwin"
  RuleSize,     \* most addresses of one netsh rule
  MaxPublished, \* bound: changes of the block list
  MaxFailures,  \* bound: failed commands, restarts and lost look-ups
  Nothing

ASSUME FirewallAssumption ==
  /\ V6 \subseteq Addresses /\ Nothing \notin Addresses
  /\ Platform \in {"linux", "win32", "darwin"} /\ RuleSize \in Nat \ {0}

VARIABLES
  feed,         \* the block list the console publishes
  chain,        \* what the firewall drops: <<address, direction>>
  pass,         \* [Passes -> the locals of an enforceOnce()]
  lastApplied,  \* the list of the last pass that succeeded
  enforceFatal,
  published,    \* changes of the block list so far
  failures,     \* failures and restarts so far
  crossed,      \* history: two passes were in flight at once
  broken        \* history: a command failed since the last pass of which none did

fwVars == <<feed, chain, pass, lastApplied, enforceFatal, published, failures, crossed, broken>>

NoSet == {Nothing}
Directions == {"in", "out"}
Both(ips) == ips \X Directions
Ready == [pc |-> "idle", ips |-> {}, commands |-> <<>>, clean |-> TRUE]

FirewallInit ==
  /\ feed = {} /\ chain = {} /\ pass = [p \in Passes |-> Ready]
  /\ lastApplied = NoSet /\ enforceFatal = FALSE
  /\ published = 0 /\ failures = 0 /\ crossed = FALSE /\ broken = FALSE

-----------------------------------------------------------------------------
(* firewall[platform].apply as the commands it runs.  A command that may fail without ending the  *)
(* pass is not a must.                                                                            *)

Add(rules) == [op |-> "add", rules |-> rules, must |-> TRUE]
Flush(ips, must) == [op |-> "flush", rules |-> Both(ips), must |-> must]

\* iptables, then ip6tables: flush the chain, then two rules for each address.
LinuxTable(family, ips) ==
  <<Flush(family, TRUE)>>
  \o FlattenSeq([i \in 1 .. Cardinality(ips) |->
                   LET ip == SetToSeq(ips)[i] IN <<Add({<<ip, "in">>}), Add({<<ip, "out">>})>>])

\* netsh: delete the rules of that name, then groups of RuleSize addresses, in and out.
NetshGroups(ips) ==
  LET all == SetToSeq(ips)
      groups == (Len(all) + RuleSize - 1) \div RuleSize
      Group(i) == {all[j] : j \in {k \in DOMAIN all : (k - 1) \div RuleSize = i - 1}}
  IN FlattenSeq([i \in 1 .. groups |-> <<Add(Group(i) \X {"in"}), Add(Group(i) \X {"out"})>>])

Commands_SkipsEmptyTable(ips) ==
  LinuxTable(Addresses \ V6, ips \ V6) \o IF ips \cap V6 = {} THEN <<>> ELSE LinuxTable(V6, ips \cap V6)

Commands(ips) ==
  CASE Platform = "linux"  -> LinuxTable(Addresses \ V6, ips \ V6) \o LinuxTable(V6, ips \cap V6)
    [] Platform = "win32"  -> <<Flush(Addresses, FALSE)>> \o NetshGroups(ips)
    [] Platform = "darwin" -> <<[op |-> "load", rules |-> Both(ips), must |-> TRUE]>>

Effect(c) ==
  CASE c.op = "add"   -> chain \cup c.rules
    [] c.op = "flush" -> chain \ c.rules
    [] c.op = "load"  -> c.rules

-----------------------------------------------------------------------------
(* enforceOnce *)

Publish(ips) ==
  /\ published < MaxPublished /\ ips # feed
  /\ feed' = ips /\ published' = published + 1
  /\ UNCHANGED <<chain, pass, lastApplied, enforceFatal, failures, crossed, broken>>

\* The timer starts a pass, whether or not the last one has ended.
StartPass(p) ==
  /\ pass[p].pc = "idle" /\ ~enforceFatal
  /\ pass' = [pass EXCEPT ![p].pc = "pull"]
  /\ crossed' = (crossed \/ \E q \in Passes : pass[q].pc # "idle")
  /\ UNCHANGED <<feed, chain, lastApplied, enforceFatal, published, failures, broken>>

Pull(p) ==
  /\ pass[p].pc = "pull"
  /\ pass' = [pass EXCEPT ![p].pc = "keep", ![p].ips = feed]
  /\ UNCHANGED <<feed, chain, lastApplied, enforceFatal, published, failures, crossed, broken>>

PullFails(p) ==
  /\ pass[p].pc = "pull" /\ failures < MaxFailures
  /\ pass' = [pass EXCEPT ![p] = Ready]
  /\ enforceFatal' \in {FALSE, TRUE}   \* TRUE: the feed key is refused
  /\ failures' = failures + 1
  /\ UNCHANGED <<feed, chain, lastApplied, published, crossed, broken>>

\* The addresses of the host and, when its name resolves, of the console are kept out.
Kept(resolved) == Host \cup IF resolved THEN Console ELSE {}

Protect(p, resolved) ==
  LET ips == pass[p].ips \ Kept(resolved)
  IN /\ pass[p].pc = "keep"
     /\ resolved \/ failures < MaxFailures
     /\ failures' = IF resolved THEN failures ELSE failures + 1
     /\ pass' = [pass EXCEPT ![p] = IF ips = lastApplied THEN Ready
                                    ELSE [pc |-> "apply", ips |-> ips, commands |-> Commands(ips),
                                          clean |-> TRUE]]
     /\ UNCHANGED <<feed, chain, lastApplied, enforceFatal, published, crossed, broken>>

\* The next command of the pass; lastApplied is set after the last one.
Run(p) ==
  LET left == Tail(pass[p].commands)
  IN /\ pass[p].pc = "apply" /\ pass[p].commands # <<>>
     /\ chain' = Effect(Head(pass[p].commands))
     /\ IF left = <<>>
        THEN /\ lastApplied' = pass[p].ips /\ broken' = ~pass[p].clean
             /\ pass' = [pass EXCEPT ![p] = Ready]
        ELSE /\ pass' = [pass EXCEPT ![p].commands = left]
             /\ UNCHANGED <<lastApplied, broken>>
     /\ UNCHANGED <<feed, enforceFatal, published, failures, crossed>>

RunFails(p) ==
  LET c == Head(pass[p].commands)
      left == Tail(pass[p].commands)
  IN /\ pass[p].pc = "apply" /\ pass[p].commands # <<>> /\ failures < MaxFailures
     /\ failures' = failures + 1 /\ broken' = TRUE
     /\ IF c.must \/ left = <<>>
        THEN /\ pass' = [pass EXCEPT ![p] = Ready]
             /\ lastApplied' = IF c.must THEN lastApplied ELSE pass[p].ips
        ELSE /\ pass' = [pass EXCEPT ![p].commands = left, ![p].clean = FALSE]
             /\ UNCHANGED lastApplied
     /\ UNCHANGED <<feed, chain, enforceFatal, published, crossed>>

\* A restart keeps the firewall's rules; --enforce-clear removes them.
RestartAgent(clear) ==
  /\ failures < MaxFailures
  /\ failures' = failures + 1
  /\ pass' = [p \in Passes |-> Ready] /\ lastApplied' = NoSet /\ enforceFatal' = FALSE
  /\ chain' = IF clear THEN {} ELSE chain
  /\ UNCHANGED <<feed, published, crossed, broken>>

FirewallNext ==
  \/ \E ips \in SUBSET Addresses : Publish(ips)
  \/ \E p \in Passes :
       \/ StartPass(p) \/ Pull(p) \/ PullFails(p)
       \/ \E resolved \in BOOLEAN : Protect(p, resolved)
       \/ Run(p) \/ RunFails(p)
  \/ \E clear \in BOOLEAN : RestartAgent(clear)
=============================================================================

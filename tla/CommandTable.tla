---------------------------- MODULE CommandTable ----------------------------
(***************************************************************************)
(* The commands of route.go, each with the shape of its handler as Command *)
(* uses it: whether it needs a store, which mistakes it refuses before it  *)
(* dials, whether it has a subcommand that it looks at after the dial,     *)
(* what it does with stdin, and whether it streams.                        *)
(***************************************************************************)
EXTENDS TLC

Needs(checks) ==
  [store |-> TRUE, checks |-> checks, late |-> FALSE,
   stdin |-> "none", streams |-> FALSE]
GatewayWide == [Needs({}) EXCEPT !.store = FALSE]
Reads(checks) == [Needs(checks) EXCEPT !.stdin = "input"]
Streams(checks) == [Needs(checks) EXCEPT !.streams = TRUE]

StreamReads ==
  "streams list" :> Needs({})
  @@ "streams read" :> Needs({"flags", "arity"})
  @@ "streams version" :> Needs({"arity"})
StreamWrites ==
  "streams delete" :> Needs({"arity"})
  @@ "streams append" :> Reads({"flags", "arity", "value"})
StreamQueries ==
  "streams by-types" :> Needs({"flags", "arity"})
  @@ "streams by-tags" :> Needs({"flags", "arity", "value"})
  @@ "streams all" :> Needs({"flags"})
  @@ "streams watch" :> Streams({"flags", "arity"})

Stores ==
  "stores list" :> GatewayWide
  @@ "stores watch" :> [GatewayWide EXCEPT !.streams = TRUE]
Catalogue == [c \in {"catalogue status", "catalogue reload"} |-> GatewayWide]

SubsCalls ==
  "subs list" :> Needs({})
  @@ "subs get" :> Needs({"arity"})
  @@ "subs lag" :> Needs({"arity"})
  @@ "subs create" :> Needs({"flags", "arity", "value"})
SubsChanges ==
  "subs remove" :> Needs({"flags", "arity", "value"})
  @@ "subs ack" :> Needs({"arity", "value"})
SubsConsume ==
  LET consume == Streams({"flags", "arity", "value"})
  IN  "subs consume" :> consume
      @@ "subs consume --ack-mode stdin" :> [consume EXCEPT !.stdin = "acks"]

Snapshots ==
  "snapshots list" :> Needs({"arity"})
  @@ "snapshots list-all" :> Needs({})
  @@ "snapshots at" :> Needs({"arity", "value"})
  @@ "snapshots latest" :> Needs({"arity"})
  @@ "snapshots save" :> Reads({"arity", "value"})
  @@ "snapshots delete" :> Needs({"arity", "value"})

Schema ==
  "schema list" :> Needs({})
  @@ "schema get" :> Needs({"arity"})
  @@ "schema version" :> Needs({"arity"})
  @@ "schema register" :> Reads({"arity"})
  @@ "schema unregister" :> Needs({"arity"})
  @@ "schema upcast" :> Reads({})

Temporal ==
  "temporal until" :> Needs({"flags", "arity", "value"})
  @@ "temporal range" :> Needs({"flags", "arity", "value"})
  @@ "temporal version-at" :> Needs({"arity", "value"})

AdminCalls ==
  "admin stats" :> Needs({})
  @@ "admin stream-info" :> Needs({"arity"})
  @@ "admin event-types" :> Needs({})
  @@ "admin scavenge" :> Needs({"flags", "arity"})
  @@ "admin scavenge-matching" :> Needs({"flags", "arity"})
AdminLinks == "admin links" :> [Needs({"arity"}) EXCEPT !.late = TRUE]

Health ==
  [c \in {"health check", "health cluster-consistency",
          "health membership-consensus", "health raft-log",
          "health memory-level", "health memory-stats",
          "health server-info"} |-> Needs({})]
  @@ "health status" :> GatewayWide

routes ==
  StreamReads @@ StreamWrites @@ StreamQueries @@ Stores @@ Catalogue
    @@ SubsCalls @@ SubsChanges @@ SubsConsume @@ Snapshots @@ Schema
    @@ Temporal @@ AdminCalls @@ AdminLinks @@ Health
=============================================================================

------------------------------- MODULE Namespaces -------------------------------
(***************************************************************************)
(* Namespaces: which servers they hold, under which prefix, and what name  *)
(* a tool or a resource of theirs has for a client (apps/gateway/src/      *)
(* aggregate, api/namespaces.ts, and the part of api/servers.ts that       *)
(* creates, renames and deletes servers).                                  *)
(*                                                                         *)
(* Names are sequences of characters here, since the properties are about  *)
(* what becomes of a name that is joined with another and split again.     *)
(* Creating and changing a server take two steps, with the encryption of   *)
(* its secrets between them; everything else is done at once.              *)
(***************************************************************************)
EXTENDS Sequences, SequencesExt

CONSTANTS
    Servers,       \* ids of servers
    Spaces,        \* ids of namespaces
    Names,         \* names that are asked for
    Given,      \* prefixes that are asked for
    Separators,    \* values of the setting tool_separator, the first of them initially
    Catalog,       \* server -> the tools it has
    Ops,           \* POST and PATCH requests in flight
    Default,       \* a null prefix: the server's name
    NoName         \* there is no such server

\* Names, prefixes and separators have a character at least, as their schemas ask for; what
\* an upstream calls its tools is its own affair.
Words == Seq(STRING) \ {<<>>}

ASSUME NamespacesAssumption ==
    /\ Names \cup Given \subseteq Words /\ Default \notin Given /\ NoName \notin Names
    /\ Separators \in Seq(Words) /\ Separators # <<>>
    /\ DOMAIN Catalog = Servers /\ \A s \in Servers : Catalog[s] \subseteq Seq(STRING)

VARIABLES
    names,         \* server -> its name
    members,       \* namespace -> server -> its membership
    hidden,        \* <<namespace, server, tool>> of the overrides that disable a tool
    separator,     \* the setting
    ops,           \* POST and PATCH requests in flight
    overtaken      \* a PATCH wrote the name it had read before another PATCH renamed the server

namesVars == <<names, members, hidden, separator, ops, overtaken>>

-----------------------------------------------------------------------------
NoMember == [in |-> FALSE, prefix |-> Default, enabled |-> FALSE]
NoOp == [at |-> "idle", server |-> NoName, name |-> NoName, old |-> NoName]

TypeOK ==
    /\ names \in [Servers -> Names \cup {NoName}]
    /\ members \in [Spaces -> [Servers -> [in : BOOLEAN, prefix : Given \cup {Default}, enabled : BOOLEAN]]]
    /\ \A h \in hidden : \E n \in Spaces, s \in Servers : \E t \in Catalog[s] : h = <<n, s, t>>
    /\ separator \in ToSet(Separators)
    /\ ops \in [Ops -> [at : {"idle", "create", "patch"}, server : Servers \cup {NoName},
                        name : Names \cup {NoName}, old : Names \cup {NoName}]]
    /\ overtaken \in BOOLEAN
    \* the name of a server is unique, and the rows of a server go with it
    /\ \A s, t \in Servers : names[s] = names[t] /\ names[s] # NoName => s = t
    /\ \A n \in Spaces, s \in Servers : names[s] = NoName =>
          members[n][s] = NoMember /\ \A t \in Catalog[s] : <<n, s, t>> \notin hidden

NamesInit ==
    /\ names = [s \in Servers |-> NoName]
    /\ members = [n \in Spaces |-> [s \in Servers |-> NoMember]]
    /\ hidden = {} /\ separator = Head(Separators)
    /\ ops = [o \in Ops |-> NoOp] /\ overtaken = FALSE

-----------------------------------------------------------------------------
(***************************************************************************)
(* naming.ts.                                                              *)
(***************************************************************************)
Exposed(prefix, tool) == prefix \o separator \o tool

\* Where sep occurs in s.
Occurrences(s, sep) == {i \in 1..(Len(s) - Len(sep) + 1) : SubSeq(s, i, i + Len(sep) - 1) = sep}

\* Mutant: split at the last separator.
LastAt(s, sep) == CHOOSE i \in Occurrences(s, sep) : \A j \in Occurrences(s, sep) : j <= i

FirstAt(s, sep) == CHOOSE i \in Occurrences(s, sep) : \A j \in Occurrences(s, sep) : i <= j

\* splitToolName: nothing without a separator, a prefix or a tool.
Splits(s, sep) == /\ Occurrences(s, sep) # {}
                  /\ FirstAt(s, sep) > 1 /\ FirstAt(s, sep) + Len(sep) <= Len(s)
SplitPrefix(s, sep) == SubSeq(s, 1, FirstAt(s, sep) - 1)
SplitTool(s, sep) == SubSeq(s, FirstAt(s, sep) + Len(sep), Len(s))

\* Letters are of one case here.
UriPrefix(prefix) == [i \in 1..Len(prefix) |-> IF prefix[i] = "_" THEN "-" ELSE prefix[i]]

-----------------------------------------------------------------------------
(***************************************************************************)
(* aggregator.ts.                                                          *)
(***************************************************************************)
\* The members of a namespace, given the names of the servers and its memberships.
Members(of) == {s \in Servers : of[s].in}
PrefixIn(nm, of, s) == IF of[s].prefix = Default THEN nm[s] ELSE of[s].prefix
Prefix(n, s) == PrefixIn(names, members[n], s)

\* Mutant: prefixes are compared as they are.
NoCollisionPlain(nm, of) == \A s, t \in Members(of) :
    PrefixIn(nm, of, s) = PrefixIn(nm, of, t) => s = t

\* checkPrefixes: two prefixes that are equal are equal as URI prefixes too.
NoCollision(nm, of) == \A s, t \in Members(of) :
    UriPrefix(PrefixIn(nm, of, s)) = UriPrefix(PrefixIn(nm, of, t)) => s = t

Enabled(n) == {s \in Members(members[n]) : members[n][s].enabled}

\* The tools of a namespace with the names a client sees and where they come from; of
\* two with one name the client is shown the first only.
Listed(n) == UNION {{[server |-> s, tool |-> t, name |-> Exposed(Prefix(n, s), t)] :
                       t \in {u \in Catalog[s] : <<n, s, u>> \notin hidden}} : s \in Enabled(n)}

\* resolveTool: the targets a call of that name can have.
Resolved(n, name) ==
    IF ~Splits(name, separator) THEN {}
    ELSE {[server |-> s, tool |-> SplitTool(name, separator)] :
             s \in {s \in Enabled(n) : /\ Prefix(n, s) = SplitPrefix(name, separator)
                                       /\ <<n, s, SplitTool(name, separator)>> \notin hidden}}

\* resolveUri, for what precedes the plus sign.
ResolvedUri(n, uri) == {s \in Enabled(n) : UriPrefix(Prefix(n, s)) = uri}

-----------------------------------------------------------------------------
(***************************************************************************)
(* api/servers.ts.                                                         *)
(***************************************************************************)
Taken(name, nm, s) == \E t \in Servers \ {s} : nm[t] = name
HasSeparator(name) == Occurrences(name, separator) # {}
Reply(o) == ops' = [ops EXCEPT ![o] = NoOp]

CreateBegin(o, s, name) ==
    /\ ops[o].at = "idle" /\ names[s] = NoName
    /\ \A other \in Ops : ops[other].server # s
    /\ ~Taken(name, names, s) /\ ~HasSeparator(name)
    /\ ops' = [ops EXCEPT ![o] = [NoOp EXCEPT !.at = "create", !.server = s, !.name = name]]
    /\ UNCHANGED <<names, members, hidden, separator, overtaken>>

\* A name that is taken by now fails the unique constraint.
CreateInsert(o) ==
    /\ ops[o].at = "create"
    /\ names' = IF Taken(ops[o].name, names, ops[o].server) THEN names
                ELSE [names EXCEPT ![ops[o].server] = ops[o].name]
    /\ Reply(o)
    /\ UNCHANGED <<members, hidden, separator, overtaken>>

\* PATCH /:id.  A name that is the server's own is not looked at, but written below.
PatchBegin(o, s, name) ==
    /\ ops[o].at = "idle" /\ names[s] # NoName
    /\ name # names[s] => ~Taken(name, names, s) /\ ~HasSeparator(name)
    /\ ops' = [ops EXCEPT ![o] = [at |-> "patch", server |-> s, name |-> name, old |-> names[s]]]
    /\ UNCHANGED <<names, members, hidden, separator, overtaken>>

\* The name is written, if nobody has it by now; if it is not the one that was read at
\* the beginning the namespaces are checked, and on a collision that one is written back.
PatchWrite(o) ==
    LET s == ops[o].server
        named(name) == [names EXCEPT ![s] = name]
        collides == /\ ops[o].name # ops[o].old
                    /\ \E n \in Spaces : members[n][s].in /\ ~NoCollision(named(ops[o].name), members[n])
        writes == names[s] # NoName /\ ~Taken(ops[o].name, names, s)
    IN /\ ops[o].at = "patch"
       /\ names' = IF ~writes THEN names
                   ELSE IF collides /\ ~Taken(ops[o].old, names, s) THEN named(ops[o].old)
                   ELSE named(ops[o].name)
       /\ overtaken' = (overtaken \/ (/\ writes /\ names[s] # ops[o].old
                                      /\ collides \/ ops[o].name = ops[o].old))
       /\ Reply(o)
       /\ UNCHANGED <<members, hidden, separator>>

DeleteServer(s) ==
    /\ names[s] # NoName
    /\ names' = [names EXCEPT ![s] = NoName]
    /\ members' = [n \in Spaces |-> [members[n] EXCEPT ![s] = NoMember]]
    /\ hidden' = {override \in hidden : override[2] # s}
    /\ UNCHANGED <<separator, ops, overtaken>>

\* PATCH /settings: any separator of the right characters.
SetSeparator(sep) ==
    /\ separator' = sep
    /\ UNCHANGED <<names, members, hidden, ops, overtaken>>

-----------------------------------------------------------------------------
(***************************************************************************)
(* api/namespaces.ts.                                                      *)
(***************************************************************************)
Member(prefix, enabled) == [in |-> TRUE, prefix |-> prefix, enabled |-> enabled]

\* POST /:id/servers: the membership is written and checked in one transaction.
SaveMember(n, s, prefix, enabled) ==
    /\ names[s] # NoName
    /\ LET saved == [members[n] EXCEPT ![s] = Member(prefix, enabled)]
       IN /\ NoCollision(names, saved)
          /\ members' = [members EXCEPT ![n] = saved]
    /\ UNCHANGED <<names, hidden, separator, ops, overtaken>>

RemoveMember(n, s) ==
    /\ members[n][s].in
    /\ members' = [members EXCEPT ![n][s] = NoMember]
    /\ UNCHANGED <<names, hidden, separator, ops, overtaken>>

\* PUT and DELETE /:id/tools.  A removed member keeps its overrides.
Hide(n, s, tool) ==
    /\ members[n][s].in
    /\ hidden' = hidden \cup {<<n, s, tool>>}
    /\ UNCHANGED <<names, members, separator, ops, overtaken>>

Show(n, s, tool) ==
    /\ hidden' = hidden \ {<<n, s, tool>>}
    /\ UNCHANGED <<names, members, separator, ops, overtaken>>

-----------------------------------------------------------------------------
NamesNext ==
    \/ \E o \in Ops : CreateInsert(o) \/ PatchWrite(o)
    \/ \E o \in Ops, s \in Servers, name \in Names : CreateBegin(o, s, name) \/ PatchBegin(o, s, name)
    \/ \E s \in Servers : DeleteServer(s)
    \/ \E sep \in ToSet(Separators) : SetSeparator(sep)
    \/ \E n \in Spaces, s \in Servers :
          \/ RemoveMember(n, s)
          \/ \E prefix \in Given \cup {Default}, enabled \in BOOLEAN : SaveMember(n, s, prefix, enabled)
          \/ \E tool \in Catalog[s] : Hide(n, s, tool) \/ Show(n, s, tool)

NamesSpec == NamesInit /\ [][NamesNext]_namesVars

-----------------------------------------------------------------------------
(***************************************************************************)
(* Properties.                                                             *)
(***************************************************************************)
\* A tool that has a name is called where it was listed from, when the separator does not
\* begin inside the prefix.
WellJoined(prefix) == FirstAt(prefix \o separator, separator) = Len(prefix) + 1
ToolsResolve(n) ==
    \A entry \in Listed(n) :
        WellJoined(Prefix(n, entry.server)) /\ entry.tool # <<>> =>
            Resolved(n, entry.name) = {[server |-> entry.server, tool |-> entry.tool]}

\* A resource is read where it was listed from: no two members share a prefix in URIs.
ResourcesResolve(n) ==
    \A s \in Enabled(n) : ResolvedUri(n, UriPrefix(Prefix(n, s))) = {s}

\* What a namespace lists resolves to where it was listed from, but after two PATCH
\* requests renamed one server and the later one wrote the name it had read before the
\* other (naming.ts 7-14, aggregator.ts 147-167 and 200-206).
ListedNamesResolve ==
    TypeOK /\ (~overtaken => \A n \in Spaces : ToolsResolve(n) /\ ResourcesResolve(n))
=============================================================================

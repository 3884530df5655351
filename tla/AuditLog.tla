------------------------------ MODULE AuditLog ------------------------------
(***************************************************************************)
(* Sessions of the HMIs, the audit log and the package of evidence         *)
(* (server/compliance.py), called by several threads, each with its own    *)
(* connection.  The row of a session and its log entry are two             *)
(* transactions, and an export reads the two tables in two.                *)
(*                                                                         *)
(* An export is of the whole period and below its limit.  Of an entry only *)
(* the action and the session are kept; the log is a bag of them.          *)
(***************************************************************************)
EXTENDS Naturals

CONSTANTS Callers,
          Sessions,
          MaxFailures  \* bound: writes that raise and threads that die

ASSUME AuditAssumption == MaxFailures \in Nat

VARIABLES sessions,  \* of each session: "none", "open" or "closed" (closed_at)
          log,       \* how many entries of each kind
          doing,     \* the step each call is before
          part,      \* what an export has read
          package,   \* the last package that was exported
          failures

auditVars == <<sessions, log, doing, part, package, failures>>

Entries == {"SESSION_OPENED", "SESSION_CLOSED"} \X Sessions
NotRead == {}
NoPackage == [audit_log |-> NotRead, sessions |-> NotRead]
Packages == [audit_log : SUBSET Entries, sessions : SUBSET (Sessions \X {"open", "closed"})]

AuditTypeOK ==
  /\ sessions \in [Sessions -> {"none", "open", "closed"}]
  /\ log \in [Entries -> Nat]
  /\ doing \in [Callers -> {<<"idle">>, <<"export">>} \cup ({"open", "close"} \X Sessions)]
  /\ part \in [Callers -> Packages] /\ package \in Packages
  /\ failures \in 0 .. MaxFailures

AuditInit == /\ sessions = [s \in Sessions |-> "none"]
             /\ log = [e \in Entries |-> 0]
             /\ doing = [c \in Callers |-> <<"idle">>]
             /\ part = [c \in Callers |-> NoPackage]
             /\ package = NoPackage
             /\ failures = 0

Goes(c, step) == doing' = [doing EXCEPT ![c] = step]

-----------------------------------------------------------------------------
\* open_session(), first transaction.
OpenSession(c, s) == /\ doing[c] = <<"idle">>
                     /\ sessions[s] = "none"
                     /\ sessions' = [sessions EXCEPT ![s] = "open"]
                     /\ Goes(c, <<"open", s>>)
                     /\ UNCHANGED <<log, part, package, failures>>

\* write(SESSION_OPENED).
LogOpened(c, s) == /\ doing[c] = <<"open", s>>
                   /\ log' = [log EXCEPT ![<<"SESSION_OPENED", s>>] = @ + 1]
                   /\ Goes(c, <<"idle">>)
                   /\ UNCHANGED <<sessions, part, package, failures>>

\* Mutant: the UPDATE of any session that exists.
StillThere(s) == sessions[s] # "none"

\* WHERE session_id = ? AND closed_at IS NULL; without a row close_session()
\* returns False and does nothing.
StillOpen(s) == sessions[s] = "open"

\* The caller may have the id from open_session(), get_sessions() or a package, so
\* the session may be one whose SESSION_OPENED is not written yet, or never will be.

CloseSession(c, s) == /\ doing[c] = <<"idle">>
                      /\ StillOpen(s)
                      /\ sessions' = [sessions EXCEPT ![s] = "closed"]
                      /\ Goes(c, <<"close", s>>)
                      /\ UNCHANGED <<log, part, package, failures>>

LogClosed(c, s) == /\ doing[c] = <<"close", s>>
                   /\ log' = [log EXCEPT ![<<"SESSION_CLOSED", s>>] = @ + 1]
                   /\ Goes(c, <<"idle">>)
                   /\ UNCHANGED <<sessions, part, package, failures>>

-----------------------------------------------------------------------------
(* export(): query(), then get_sessions().                                 *)

\* Mutant: the sessions first.
SessionsFirst == <<"sessions", "audit_log">>

Reads == <<"audit_log", "sessions">>

\* SELECT * FROM sessions
Inserted == {s \in Sessions : sessions[s] # "none"}

Table(name) == CASE name = "audit_log" -> {e \in Entries : log[e] > 0}
                 [] name = "sessions" -> {<<s, sessions[s]>> : s \in Inserted}

ExportFirst(c) == /\ doing[c] = <<"idle">>
                  /\ part' = [part EXCEPT ![c] = [NoPackage EXCEPT ![Reads[1]] = Table(Reads[1])]]
                  /\ Goes(c, <<"export">>)
                  /\ UNCHANGED <<sessions, log, package, failures>>

ExportSecond(c) == /\ doing[c] = <<"export">>
                   /\ package' = [part[c] EXCEPT ![Reads[2]] = Table(Reads[2])]
                   /\ part' = [part EXCEPT ![c] = NoPackage]
                   /\ Goes(c, <<"idle">>)
                   /\ UNCHANGED <<sessions, log, failures>>

-----------------------------------------------------------------------------
\* write() raises between the two transactions, or the server dies there: the row
\* stays as the first left it, and no later call makes up for the entry.
CallFails(c) == /\ doing[c] # <<"idle">>
                /\ failures < MaxFailures
                /\ failures' = failures + 1
                /\ part' = [part EXCEPT ![c] = NoPackage]
                /\ Goes(c, <<"idle">>)
                /\ UNCHANGED <<sessions, log, package>>

AuditStep == \E c \in Callers :
               \/ \E s \in Sessions : \/ OpenSession(c, s) \/ LogOpened(c, s)
                                      \/ CloseSession(c, s) \/ LogClosed(c, s)
               \/ ExportFirst(c) \/ ExportSecond(c) \/ CallFails(c)

-----------------------------------------------------------------------------
(* Properties.                                                             *)

\* Whichever threads close a session and however often, and whether or not its
\* beginning got into the log, the log has at most one entry of its end, and only
\* of a session whose row is closed.
ClosedOnce == \A s \in Sessions :
                /\ log[<<"SESSION_CLOSED", s>>] <= 1
                /\ log[<<"SESSION_CLOSED", s>>] = 1 => sessions[s] = "closed"

\* A package does not contradict itself although its two halves are read at two
\* moments: the session of each entry is in it, and it is closed if an entry says so
\* (compliance.py:883, "Entradas del audit log ... Sesiones HMI del periodo").
EvidenceAgrees ==
  \A e \in package.audit_log :
    \E q \in package.sessions : /\ q[1] = e[2]
                                /\ e[1] = "SESSION_CLOSED" => q[2] = "closed"

-----------------------------------------------------------------------------
(* What makes them inductive.                                              *)

\* A session is between its two closing transactions in one thread only, its end is
\* not in the log yet.
ClosingIsAlone ==
  \A c \in Callers, s \in Sessions : doing[c] = <<"close", s>> =>
    /\ sessions[s] = "closed"
    /\ log[<<"SESSION_CLOSED", s>>] = 0
    /\ \A d \in Callers : doing[d] = <<"close", s>> => c = d

\* The log follows the rows: a session that is not closed has no entry of its end,
\* one that has no row has none at all.
LogFollowsRows ==
  \A s \in Sessions :
    /\ sessions[s] # "closed" => log[<<"SESSION_CLOSED", s>>] = 0
    /\ sessions[s] = "none" => log[<<"SESSION_OPENED", s>>] = 0
    /\ log[<<"SESSION_CLOSED", s>>] <= 1

OpeningHasRow == \A c \in Callers, s \in Sessions :
                   doing[c] = <<"open", s>> => sessions[s] # "none"

ReadIsLogged == \A c \in Callers : \A e \in part[c].audit_log : log[e] > 0

AuditInv == /\ AuditTypeOK
            /\ ClosingIsAlone
            /\ LogFollowsRows
            /\ OpeningHasRow
            /\ ReadIsLogged
            /\ EvidenceAgrees
=============================================================================

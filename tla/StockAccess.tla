------------------------------ MODULE StockAccess ------------------------------
(***************************************************************************)
(* The LAN side of a stock login (stockLANLoginAssist): the router's web   *)
(* server is asked for the console credentials and, when that is allowed,  *)
(* to switch its FTP service on.  Each call of the assist, one for each    *)
(* round of a login, runs in a goroutine of its own, which goes on when    *)
(* its caller no longer waits; requests and answers can be lost, and the   *)
(* stock init may change the service passwords late.                       *)
(***************************************************************************)
EXTENDS Naturals

CONSTANT WebTries  \* bound: how often the 90 s loop starts again

ASSUME WebAssumption == WebTries \in Nat

VARIABLES
  web,     \* the assist of each round: where it is, what it remembers, what it has answered
  ftp,     \* the router's setting: on, and byUs when a request of ours changed it
  gen,     \* which of its passwords the stock system has now
  consent  \* the caller's operator has agreed to a change of the setting

webVars == <<web, ftp, gen, consent>>

Rounds == 1..3

\* LinuxLoginPlan.
NoPlan == [ok |-> FALSE, gen |-> 0, root |-> FALSE, ftp |-> FALSE, changed |-> FALSE]
IdleWeb ==
  [at |-> "idle", provision |-> FALSE, changed |-> FALSE, tries |-> 0, plan |-> NoPlan, left |-> FALSE]

WebInit ==
  /\ web = [g \in Rounds |-> IdleWeb] /\ gen = 0
  /\ ftp = [on |-> FALSE, byUs |-> FALSE] /\ consent = FALSE

\* The stages that may end in a change of the setting.  An assist that nobody waits for is
\* followed as long as it is in one of them: what it does afterwards, or without leave to
\* change anything, is read for nobody.
Changing == {"login", "model", "enable"}
WebGoto(g, p) ==
  web' = [web EXCEPT ![g] = IF @.left /\ p \notin Changing THEN IdleWeb ELSE [@ EXCEPT !.at = p]]

\* The result goes into the channel, which nobody reads if the caller has left.
WebEnds(g, at, plan) ==
  web' = [web EXCEPT ![g] = IF @.left THEN IdleWeb ELSE [@ EXCEPT !.at = at, !.plan = plan]]
WebFails(g) == WebEnds(g, "failed", NoPlan) /\ UNCHANGED <<ftp, gen>>

\* An error the loop repeats after, until its 90 s are over; `changed` is the round's own.
Again(g) ==
  \/ /\ web[g].tries < WebTries
     /\ web' = [web EXCEPT ![g] = [@ EXCEPT !.at = "login", !.changed = FALSE, !.tries = web[g].tries + 1]]
     /\ UNCHANGED <<ftp, gen>>
  \/ WebFails(g)

Advance(g, p) == WebGoto(g, p) /\ UNCHANGED <<ftp, gen>>

-----------------------------------------------------------------------------
\* login: key, encrypted form, session cookie.
Login(g) == web[g].at = "login" /\ (Advance(g, "model") \/ Again(g))

\* deviceModel: not readable repeats, another model than MD or MF ends the assist.
Model(g) ==
  /\ web[g].at = "model"
  /\ \/ Advance(g, IF web[g].provision THEN "enable" ELSE "creds")
     \/ Again(g)
     \/ WebFails(g)

\* enableFTP, up to the POST.  The page may not be readable or have no token.  A
\* setting that is on already is no change of ours.  The answer to a POST that was
\* carried out may be lost with all its repetitions.
EnableFTP(g) ==
  /\ web[g].at = "enable"
  /\ \/ WebFails(g)
     \/ ftp.on /\ Advance(g, "creds")
     \/ ~ftp.on /\ \E answered \in BOOLEAN :
          /\ ftp' = [on |-> TRUE, byUs |-> TRUE]
          /\ IF answered THEN WebGoto(g, "ready") ELSE WebEnds(g, "failed", NoPlan)
          /\ UNCHANGED gen

\* enableFTP, its 20 s: (true, nil) when the service answers, (true, error) when not.
FTPReady(g) ==
  /\ web[g].at = "ready"
  /\ \/ /\ web' = [web EXCEPT ![g] = [@ EXCEPT !.at = "creds", !.changed = TRUE]]
        /\ UNCHANGED <<ftp, gen>>
     \/ WebFails(g)

\* credentials and stockLoginPlan: a setting that is off may still show an account.
Credentials(g) ==
  /\ web[g].at = "creds"
  /\ \/ Again(g)
     \/ \E root \in BOOLEAN :
          /\ web[g].provision => root
          /\ WebEnds(g, "planned",
                    [ok |-> TRUE, gen |-> gen, root |-> root, ftp |-> ftp.on, changed |-> web[g].changed])
          /\ UNCHANGED <<ftp, gen>>

\* The caller's side: the call, with or without the operator's consent, the result taken
\* from the channel, and a caller that waits no longer.
WebCall(g, provision) ==
  /\ web' = [web EXCEPT ![g] = [IdleWeb EXCEPT !.at = "login", !.provision = provision]]
  /\ UNCHANGED <<ftp, gen>>

\* Mutant: an error is not sent to the caller.
WebAnswered(g) == web[g].at = "planned"
WebDone(g) == web[g].at \in {"planned", "failed"}
\* Bound: one that is left does not start over again.
WebLeft(g) ==
  /\ web' = [web EXCEPT ![g] =
       IF @.provision /\ @.at \in Changing THEN [@ EXCEPT !.left = TRUE, !.tries = WebTries] ELSE IdleWeb]
  /\ UNCHANGED <<ftp, gen, consent>>
WebTaken(g) == web' = [web EXCEPT ![g] = IdleWeb] /\ UNCHANGED <<ftp, gen, consent>>

\* Environment: the stock init gives the service accounts other passwords.
Rotate == gen = 0 /\ gen' = 1 /\ UNCHANGED <<web, ftp>>

Assist == \E g \in Rounds : Login(g) \/ Model(g) \/ EnableFTP(g) \/ FTPReady(g) \/ Credentials(g)

WebNext == (Assist \/ Rotate) /\ UNCHANGED consent

-----------------------------------------------------------------------------
\* A stock setting is changed only after the operator agreed: enableFTP runs in the assist's
\* goroutine, which may go on beside a later call's (runLinuxAssist, automaticStockLogin) and
\* after the probe.
ConsentBeforeChange == ftp.byUs => consent
=============================================================================

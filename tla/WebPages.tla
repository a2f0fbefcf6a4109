------------------------------- MODULE WebPages -------------------------------
(***************************************************************************)
(* The site behind the login: the session every page shares, the list      *)
(* screens and the forms.  A page's calls go through the session, but a    *)
(* call the session sends again did no work before (CallsKeepPromise), so  *)
(* a screen sees one call that is answered or lost, and the three parts    *)
(* never touch each other's state: their sum says what their product would.*)
(***************************************************************************)
EXTENDS WebSession, Console, PublishForm

VARIABLE area  \* the part of the site at work: "session", "console" or "form"

webVars == <<area, signedInVars, consoleVars, formVars>>

\* The other parts rest in one of their initial states.
SessionRests == stored = "good" /\ SessionInit
ConsoleRests ==
    /\ name = CHOOSE n \in DOMAIN Screens : TRUE
    /\ db = CHOOSE d \in [Rows -> screen.first] : TRUE
    /\ ConsoleInit
FormRests    == form = "login" /\ FormInit

WebInit ==
    \/ area = "session" /\ SessionInit /\ ConsoleRests /\ FormRests
    \/ area = "console" /\ ConsoleInit /\ SessionRests /\ FormRests
    \/ area = "form" /\ FormInit /\ SessionRests /\ ConsoleRests

AtSession == area = "session" /\ SessionNext /\ UNCHANGED <<area, consoleVars, formVars>>
AtConsole == area = "console" /\ ConsoleNext /\ UNCHANGED <<area, signedInVars, formVars>>
AtForm    == area = "form" /\ FormNext /\ UNCHANGED <<area, signedInVars, consoleVars>>

WebNext == AtSession \/ AtConsole \/ AtForm

WebSpec == WebInit /\ [][WebNext]_webVars /\ SessionFairness /\ ConsoleFairness

-----------------------------------------------------------------------------
WebTypeOK == SessionTypeOK /\ ConsoleTypeOK /\ FormTypeOK

===============================================================================

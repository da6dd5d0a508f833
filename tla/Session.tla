-------------------------------- MODULE Session --------------------------------
(***************************************************************************)
(* The signed-in session of a client: the tokens it stores, the user its    *)
(* pages show, the check at startup, signing in and out, and the requests   *)
(* that refresh an expired access token.  The desktop and the mobile client *)
(* differ in what they take for a refusal: Mobile says which one it is.     *)
(*                                                                         *)
(* Tokens are the account they were issued to.  An access token may have    *)
(* expired whenever it is used, and any answer may be an error instead.     *)
(***************************************************************************)
EXTENDS Naturals

CONSTANTS
    Accounts,      \* the accounts of the device
    NoAccount      \* stands for no tokens, and no user

ASSUME NoAccountAssumption == NoAccount \notin Accounts

VARIABLES
    mobile,        \* which client this is
    tokens,        \* the stored tokens
    showing,         \* what the pages show: status and user
    boot,          \* the check at startup: its phase and the tokens it read
    call,          \* an API request under way: its phase and the tokens it read
    signing,       \* a sign-in or sign-out under way
    overlapped        \* history: a sign-in or sign-out overlapped a check or a request

sessionVars == <<mobile, tokens, showing, boot, call, signing, overlapped>>

Answers == {"ok", "refused", "error"}
Off == [phase |-> "off", as |-> NoAccount]
Shows(status, user) == [status |-> status, user |-> user]

SessionInit ==
    /\ mobile \in BOOLEAN
    /\ tokens \in Accounts \cup {NoAccount}
    /\ showing = Shows("booting", NoAccount)
    /\ boot = [phase |-> "start", as |-> NoAccount]
    /\ call = Off /\ signing = Off /\ overlapped = FALSE

(***************************************************************************)
(* The check at startup.                                                   *)
(***************************************************************************)
BootEnds(status, user) ==
    /\ boot' = Off
    /\ showing' = Shows(status, user)

\* The desktop tries again after five seconds; the mobile client shows a guest.
BootFails ==
    IF mobile THEN BootEnds("guest", NoAccount)
    ELSE /\ boot' = [phase |-> "start", as |-> NoAccount]
         /\ showing' = Shows("unavailable", showing.user)

BeginBoot ==
    /\ boot.phase = "start"
    /\ IF tokens = NoAccount THEN BootEnds("guest", NoAccount)
       ELSE boot' = [phase |-> "me", as |-> tokens] /\ UNCHANGED showing
    /\ overlapped' = (overlapped \/ signing # Off)
    /\ UNCHANGED <<mobile, tokens, call, signing>>

\* The desktop takes every answer that is not a success for a refusal, the
\* mobile client only 401; a request that gets no answer fails on both.
Refused(answer) == answer \in (IF mobile THEN {"refused"} ELSE {"refused", "error"})

BootAsked(answer) ==
    /\ boot.phase = "me"
    /\ \/ answer = "ok" /\ BootEnds("authenticated", boot.as)
       \/ /\ Refused(answer)
          /\ boot' = [boot EXCEPT !.phase = "refresh"] /\ UNCHANGED showing
       \/ answer = "error" /\ BootFails
    /\ UNCHANGED <<mobile, tokens, call, signing, overlapped>>

BootRefreshed(answer) ==
    /\ boot.phase = "refresh"
    /\ \/ /\ answer = "ok"
          /\ tokens' = boot.as
          /\ boot' = [boot EXCEPT !.phase = "again"] /\ UNCHANGED showing
       \/ Refused(answer) /\ tokens' = NoAccount /\ BootEnds("guest", NoAccount)
       \/ answer = "error" /\ BootFails /\ UNCHANGED tokens
    /\ UNCHANGED <<mobile, call, signing, overlapped>>

BootAskedAgain(answer) ==
    /\ boot.phase = "again"
    /\ \/ answer = "ok" /\ BootEnds("authenticated", boot.as) /\ UNCHANGED tokens
       \/ Refused(answer) /\ tokens' = NoAccount /\ BootEnds("guest", NoAccount)
       \/ answer = "error" /\ BootFails /\ UNCHANGED tokens
    /\ UNCHANGED <<mobile, call, signing, overlapped>>

(***************************************************************************)
(* Signing in, where a guest may, and out.                                 *)
(***************************************************************************)
UnderWay == boot.phase \notin {"off", "start"} \/ call.phase # "off"

SignIn(a) ==
    /\ showing.status \in {"guest", "unavailable"} /\ signing = Off
    /\ signing' = [phase |-> "in", as |-> a]
    /\ UNCHANGED <<mobile, tokens, showing, boot, call, overlapped>>

SignInFails ==
    /\ signing.phase = "in"
    /\ signing' = Off
    /\ UNCHANGED <<mobile, tokens, showing, boot, call, overlapped>>

SignInStored ==
    /\ signing.phase = "in"
    /\ tokens' = signing.as
    /\ signing' = [signing EXCEPT !.phase = "stored"]
    /\ overlapped' = (overlapped \/ UnderWay)
    /\ UNCHANGED <<mobile, showing, boot, call>>

\* Mutant: the pages are not told of the account that signed in.
SignedInUntold ==
    /\ signing.phase = "stored"
    /\ signing' = Off
    /\ UNCHANGED <<mobile, tokens, showing, boot, call, overlapped>>

SignedIn ==
    /\ signing.phase = "stored"
    /\ showing' = Shows("authenticated", signing.as)
    /\ signing' = Off
    /\ overlapped' = (overlapped \/ UnderWay)
    /\ UNCHANGED <<mobile, tokens, boot, call>>

SignOut ==
    /\ showing.status = "authenticated" /\ signing = Off
    /\ tokens' = NoAccount
    /\ signing' = [phase |-> "out", as |-> NoAccount]
    /\ overlapped' = (overlapped \/ UnderWay)
    /\ UNCHANGED <<mobile, showing, boot, call>>

SignedOut ==
    /\ signing.phase = "out"
    /\ showing' = Shows("guest", NoAccount)
    /\ signing' = Off
    /\ UNCHANGED <<mobile, tokens, boot, call, overlapped>>

(***************************************************************************)
(* A request of the API: a refused access token is refreshed once, and the *)
(* request sent again.                                                     *)
(***************************************************************************)
BeginCallApi ==
    /\ showing.status = "authenticated" /\ call = Off
    /\ tokens # NoAccount
    /\ call' = [phase |-> "access", as |-> tokens]
    /\ UNCHANGED <<mobile, tokens, showing, boot, signing, overlapped>>

CallAnswered(answer) ==
    /\ call.phase \in {"access", "again"}
    /\ call' = IF answer = "refused" /\ call.phase = "access"
               THEN [call EXCEPT !.phase = "refresh"] ELSE Off
    /\ UNCHANGED <<mobile, tokens, showing, boot, signing, overlapped>>

CallRefreshed(answer) ==
    /\ call.phase = "refresh"
    /\ tokens' = IF answer = "ok" THEN call.as ELSE tokens
    /\ call' = IF answer = "ok" THEN [call EXCEPT !.phase = "again"] ELSE Off
    /\ UNCHANGED <<mobile, showing, boot, signing, overlapped>>

SessionNext ==
    \/ BeginBoot
    \/ \E answer \in Answers :
          \/ BootAsked(answer) \/ BootRefreshed(answer) \/ BootAskedAgain(answer)
          \/ CallAnswered(answer) \/ CallRefreshed(answer)
    \/ \E a \in Accounts : SignIn(a)
    \/ SignInFails \/ SignInStored \/ SignedIn \/ SignOut \/ SignedOut
    \/ BeginCallApi

(***************************************************************************)
(* Properties.                                                             *)
(***************************************************************************)
\* Tokens and pages name accounts, and every check and request is at a step of the code.
SessionTypeOK ==
    /\ mobile \in BOOLEAN /\ overlapped \in BOOLEAN
    /\ tokens \in Accounts \cup {NoAccount}
    /\ showing.status \in {"booting", "guest", "unavailable", "authenticated"}
    /\ showing.user \in Accounts \cup {NoAccount}
    /\ boot.phase \in {"off", "start", "me", "refresh", "again"}
    /\ call.phase \in {"off", "access", "refresh", "again"}
    /\ signing.phase \in {"off", "in", "stored", "out"}

\* Whatever fails and is tried again: while nothing is under way, the user the
\* pages show is the one the tokens were issued to.  The exception is signing in
\* or out over a check or a request that still holds the tokens from before.
PagesShowTokensUser ==
    ~overlapped /\ ~UnderWay /\ signing = Off =>
        /\ showing.status = "authenticated" => showing.user = tokens
        /\ showing.status = "guest" => showing.user = NoAccount

=============================================================================

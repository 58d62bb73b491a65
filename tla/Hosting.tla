------------------------------ MODULE Hosting ------------------------------
(***************************************************************************)
(* From the settings to the first answers: what Program.Main and           *)
(* AddRusAuthExample accept, and which token the process then gives to     *)
(* RusAuth and expects back from its webhooks (ExampleAuthFacade and       *)
(* CallbackBearerAuthorizationFilter).  The settings may be edited at any  *)
(* time: the configuration is reloaded, but an IOptions value is bound     *)
(* when it is first used and never again.                                  *)
(*                                                                         *)
(* Of a text only its content and whether blanks surround it are kept.     *)
(* The health endpoints and the pages of the site are left out.            *)
(***************************************************************************)
CONSTANTS Contents,   \* contents of texts that are not blank
          Null        \* no value; the content of a blank text

Texts == [content : Contents \cup {Null}, padded : BOOLEAN]

ASSUME NullAssumption == Null \notin Contents \cup Texts

IsBlank(text) == text.content = Null

Trim(text) == [text EXCEPT !.padded = FALSE]

\* The Authorization header: whether it starts with "Bearer ", and the rest.
Headers == [bearer : BOOLEAN, text : Texts]

Settings == [ keyRing     : BOOLEAN,    \* DataProtection:KeyRingPath is set
              certificate : BOOLEAN,    \* DataProtection:CertificatePath is set
              privateKey  : BOOLEAN,    \* DataProtection:CertificateKeyPath is set
              rusAuth     : {"missing", "invalid", "valid"},   \* section RusAuth
              token       : Texts ]     \* Example:CallbackBearerToken

Environments == {"Development", "Production"}

VARIABLES
    settings,     \* the configuration as it is now
    environment,  \* what the process was launched as
    phase,        \* how far the process has come
    token,        \* ExampleCallbackOptions.CallbackBearerToken, once bound
    told,         \* tokens this process gave to RusAuth
    answer        \* the webhook answered by this step and how, or Null

vars == <<settings, environment, phase, token, told, answer>>

\* The one type invariant. The token in force is never blank, although the
\* settings may be edited between their validation and their first use.
TypeOK ==
    /\ settings \in Settings
    /\ environment \in Environments
    /\ phase \in {"down", "keys", "services", "validation", "serving"}
    /\ token = Null \/ (token \in Texts /\ ~IsBlank(token))
    /\ told \in SUBSET Texts
    /\ answer = Null \/ answer \in [header : Headers, status : {200, 401, 500}]

Init ==
    /\ settings \in Settings
    /\ environment \in Environments
    /\ phase = "down"
    /\ token = Null /\ told = {} /\ answer = Null

---------------------------------------------------------------------------
\* Program.Main.

\* The settings are edited, while the process runs or while it does not.
EditSettings ==
    /\ settings' \in Settings
    /\ answer' = Null
    /\ UNCHANGED <<environment, phase, token, told>>

\* The process ends, whatever it was doing, and leaves nothing behind.
Stops ==
    /\ phase' = "down"
    /\ token' = Null /\ told' = {} /\ answer' = Null
    /\ UNCHANGED <<settings, environment>>

Launch ==
    /\ phase = "down"
    /\ environment' \in Environments
    /\ phase' = "keys"
    /\ UNCHANGED <<settings, token, told, answer>>

\* The paths of certificate and private key are set together, and production
\* asks for a key ring and for a certificate.
ProtectionAccepted ==
    /\ settings.certificate = settings.privateKey
    /\ environment = "Production" => settings.keyRing /\ settings.certificate

\* The keys are set up. Where the settings are refused, or the certificate cannot
\* be loaded, Main throws and the process stops.
ConfigureKeys ==
    /\ phase = "keys"
    /\ ProtectionAccepted
    /\ phase' = "services"
    /\ UNCHANGED <<settings, environment, token, told, answer>>

\* AddRusAuthExample: the section has to be there.
AddServices ==
    /\ phase = "services"
    /\ settings.rusAuth # "missing"
    /\ phase' = "validation"
    /\ UNCHANGED <<settings, environment, token, told, answer>>

\* ValidateOnStart, in app.Run.
Serve ==
    /\ phase = "validation"
    /\ settings.rusAuth = "valid"
    /\ ~IsBlank(settings.token)
    /\ phase' = "serving"
    /\ UNCHANGED <<settings, environment, token, told, answer>>

---------------------------------------------------------------------------
\* Facade and filter, each created for a circuit or a request.

\* Fault: IOptionsMonitor, whose value follows the configuration.
MonitoredToken == settings.token

\* IOptions<ExampleCallbackOptions>.Value: bound at its first use.
OptionsToken == IF token = Null THEN settings.token ELSE token

\* Fault: the options are validated at the start and not when they are bound.
BoundUnchecked == TRUE

\* Binding validates the token again and throws where it is blank.
Bound == ~IsBlank(OptionsToken)

\* StartConfirmationAsync: the request carries the token.
StartConfirmation ==
    /\ phase = "serving"
    /\ Bound
    /\ token' = OptionsToken
    /\ told' = told \cup {OptionsToken}
    /\ answer' = Null
    /\ UNCHANGED <<settings, environment, phase>>

\* Fault: what follows "Bearer " is compared as it is.
AuthorizedUntrimmed(header, expected) ==
    header.bearer /\ ~IsBlank(header.text) /\ header.text = expected

\* TryGetBearerToken and FixedTimeEquals: what follows "Bearer " is trimmed,
\* the token of the options is not.
Authorized(header, expected) ==
    header.bearer /\ ~IsBlank(header.text) /\ Trim(header.text) = expected

\* A webhook request reaches the filter: 500 where the options cannot be bound,
\* 401, or the controller answers (200 stands for any answer of it).
Webhook(header) ==
    /\ phase = "serving"
    /\ token' = IF Bound THEN OptionsToken ELSE token
    /\ answer' = [ header |-> header,
                   status |-> IF ~Bound THEN 500
                              ELSE IF Authorized(header, OptionsToken) THEN 200
                              ELSE 401 ]
    /\ UNCHANGED <<settings, environment, phase, told>>

Next ==
    \/ EditSettings \/ Stops \/ Launch
    \/ ConfigureKeys \/ AddServices \/ Serve
    \/ StartConfirmation
    \/ \E header \in Headers : Webhook(header)

Spec == Init /\ [][Next]_vars

---------------------------------------------------------------------------
\* Of the webhooks that carry a token this process gave to RusAuth, the filter
\* lets every one through, though the settings were edited since; but none where
\* the token was configured with blanks around it, for the filter trims what it
\* receives and not what it expects.
ToldTokenIsAccepted ==
    answer # Null =>
        \A t \in told :
            answer.header.bearer /\ Trim(answer.header.text) = Trim(t)
                => (answer.status = 200 <=> ~t.padded)

=============================================================================

--------------------------- MODULE Transcription ---------------------------
(***************************************************************************)
(* Voice clips of one tenant: POST /v1/transcribe, RoutedTranscriber and   *)
(* SttRouter, over the credentials that the turns of CredentialDispatch    *)
(* load, condemn and let rest, and the setting settings:stt_provider.      *)
(*                                                                         *)
(* A request reads the setting, derives a vendor from the keys when there  *)
(* is none, and opens a key of that vendor, each in a transaction of its   *)
(* own.  It writes nothing: neither cost nor what the vendor said of the   *)
(* key.                                                                    *)
(***************************************************************************)
EXTENDS CredentialDispatch

CONSTANTS
    Voice,          \* concurrent requests
    SttVendors,     \* [provider -> [kind, model, audioOnly]] of the vendors that transcribe
    Asked,          \* the models a request may name, NoModel for none
    AutoVendor

LeastInt == -2147483647 - 1     \* priority is an INT column

ASSUME VoiceAssumption ==
    /\ DOMAIN SttVendors \subseteq Provider /\ AutoVendor \notin Provider
    /\ \A p, q \in DOMAIN SttVendors : SttVendors[p].model = SttVendors[q].model => p = q
    /\ \A c \in Cred : Priority[c] >= LeastInt
    /\ \A s \in Scopes : s.voices \subseteq Voice

VARIABLES
    setting,    \* session_kv settings:stt_provider: a provider or AutoVendor
    clip        \* the request of each voice task, see ClipState

voiceVars == <<setting, clip>>
allVars == <<vars, voiceVars>>

\* The last three fields are history: the settings and the derived vendors
\* that held at some moment since the request arrived, and the keys that
\* have been dead ever since.
ClipState == [
    pc : {"idle", "checked", "derive", "open", "sent"},
    model : Asked \cup {NoModel},               \* named by the request
    vendor : Provider \cup {AutoVendor},
    request : [key : Cred, model : Asked \cup Range([p \in DOMAIN SttVendors |-> SttVendors[p].model]),
               instructed : BOOLEAN] \cup {NoCred},
    settings : SUBSET (Provider \cup {AutoVendor}),
    derived : SUBSET (Provider \cup {AutoVendor}),
    dead : SUBSET Cred ]
NoClip == [pc |-> "idle", model |-> NoModel, vendor |-> AutoVendor, request |-> NoCred,
           settings |-> {}, derived |-> {}, dead |-> {}]

VoiceTypeOK ==
    /\ setting \in DOMAIN SttVendors \cup {AutoVendor}
    /\ clip \in [Voice -> ClipState]

VoiceInit == Init /\ setting = AutoVendor /\ clip = [v \in Voice |-> NoClip]

----------------------------------------------------------------------------
(* Choosing a vendor, a key and a model.                                   *)

StatusKeys == {c \in Keys : row[c].status # "dead"}

\* configured_providers: GROUP BY provider ORDER BY MIN(priority), provider;
\* the first that transcribes.  Ties go by name, here in any way.
FirstVendor(keys) ==
    LET of == {c \in keys : ProviderOf[c] \in DOMAIN SttVendors} IN
    IF of = {} THEN AutoVendor ELSE ProviderOf[CHOOSE c \in of : \A d \in of : Priority[c] <= Priority[d]]

Derived == FirstVendor(StatusKeys)

\* open_key: the keys of p that are not dead, a healthy one first.
Openable(p) ==
    LET of == {c \in StatusKeys : ProviderOf[c] = p}
        healthy == {c \in of : row[c].status = "ok"}
        pool == IF healthy # {} THEN healthy ELSE of IN
    {c \in pool : \A d \in pool : Priority[c] <= Priority[d]}

\* resolve_model: the default of another vendor is not for this one.
ModelFor(p, m) ==
    IF m = NoModel \/ \E q \in DOMAIN SttVendors \ {p} : SttVendors[q].model = m
    THEN SttVendors[p].model ELSE m

\* build_provider: a dedicated model is sent the audio and nothing else.
Multipart(p, c, m) == [key |-> c, model |-> ModelFor(p, m), instructed |-> FALSE]
ChatAudio(p, c, m) == [key |-> c, model |-> ModelFor(p, m), instructed |-> ~SttVendors[p].audioOnly]
Request(p, c, m) == IF SttVendors[p].kind = "Multipart" THEN Multipart(p, c, m) ELSE ChatAudio(p, c, m)

----------------------------------------------------------------------------
(* The request.                                                            *)

\* What held while a request was running.
Seen(s) == IF s.pc = "idle" THEN s
           ELSE [s EXCEPT !.settings = @ \cup {setting'}, !.derived = @ \cup {Derived'},
                          !.dead = {c \in @ : c \in Keys' /\ row'[c].status = "dead"}]
Clips(new) == clip' = [v \in Voice |-> Seen(new[v])]
Clip(v, new) == UNCHANGED <<vars, setting>> /\ Clips([clip EXCEPT ![v] = new])

\* The route commits its own transaction, and the ceiling lets it pass (so
\* does an error of the ledger).
Transcribe(v, m) ==
    /\ clip[v].pc = "idle"
    /\ Clip(v, [NoClip EXCEPT !.pc = "checked", !.model = m,
                              !.dead = {c \in Keys : row[c].status = "dead"}])

\* explicit_setting in resolve_vendor.
ReadSetting(v) ==
    /\ clip[v].pc = "checked"
    /\ Clip(v, IF setting = AutoVendor THEN [clip[v] EXCEPT !.pc = "derive"]
               ELSE [clip[v] EXCEPT !.pc = "open", !.vendor = setting])

\* Variant: a setting that cannot be read counts as none.
Blip(s) == IF s.pc = "checked" THEN [s EXCEPT !.pc = "derive"] ELSE NoClip

\* An error of one of the transactions is the answer; only the names of the
\* configured providers read as none.
Unread(s) == NoClip
ReadFails(v) == clip[v].pc \in {"checked", "derive", "open"} /\ Clip(v, Unread(clip[v]))

Derive(v) ==
    /\ clip[v].pc = "derive"
    /\ Clip(v, IF Derived = AutoVendor THEN NoClip
               ELSE [clip[v] EXCEPT !.pc = "open", !.vendor = Derived])

\* open_key, then the limit on the size, then one call to one vendor.
OpenKey(v) ==
    LET p == clip[v].vendor IN
    /\ clip[v].pc = "open"
    /\ \/ \E c \in Openable(p) :
            Clip(v, [clip[v] EXCEPT !.pc = "sent", !.request = Request(p, c, clip[v].model)])
       \/ Clip(v, NoClip)       \* no key, one that does not unseal, or too long a clip

\* Whatever the vendor answers becomes an envelope; or the client is gone.
Reply(v) == clip[v].pc = "sent" /\ Clip(v, NoClip)

\* PUT /v1/settings/stt-provider.
SetSttProvider(p) ==
    /\ setting' = p /\ UNCHANGED vars
    /\ Clips(clip)

VoiceStep ==
    \/ \E v \in scope.voices :
         \/ ReadSetting(v) \/ ReadFails(v) \/ Derive(v) \/ OpenKey(v) \/ Reply(v)
         \/ \E m \in Asked : Transcribe(v, m)
    \/ scope.voices # {} /\ \E p \in DOMAIN SttVendors \cup {AutoVendor} : SetSttProvider(p)

VoiceNext ==
    \/ VoiceStep
    \/ Next /\ UNCHANGED setting /\ Clips(clip)

VoiceSpec == VoiceInit /\ [][VoiceNext]_allVars /\ \A k \in Watched : WF_vars(OwnStep(k))

----------------------------------------------------------------------------
(* Properties.                                                             *)

\* A clip goes to a vendor the tenant chose: one that was the setting at some
\* moment of the request, or, only if the setting was "auto" at some moment,
\* one that the keys named; under a model of that vendor, and never under a key
\* that a turn had condemned before the request arrived and nobody saved anew.
VoiceWhereChosen ==
    \A v \in Voice : clip[v].pc = "sent" =>
        LET s == clip[v] IN
        /\ s.vendor \in s.settings \/ (AutoVendor \in s.settings /\ s.vendor \in s.derived)
        /\ ProviderOf[s.request.key] = s.vendor /\ s.request.key \notin s.dead
        /\ \A q \in DOMAIN SttVendors \ {s.vendor} : s.request.model # SttVendors[q].model
=============================================================================

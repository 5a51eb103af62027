--------------------------- MODULE CompanyAdoption ---------------------------
(* Moving a company folder to a server.  An export copies the folder file by    *)
(* file while people may go on writing, and keeps the copy only if nothing      *)
(* changed and the copy agrees with itself.  An import freezes the bundle       *)
(* beside a receipt, sends it, and may be stopped, cut off and repeated; the    *)
(* server may answer late or about something else.                              *)
EXTENDS Integers, Sequences

CONSTANTS Settings,      \* currency, basis and tracking, kept in two places
          Documents,     \* evidence that the ledger names by its hash
          Extras,        \* what else lies in the folder
          Connections, CompanyOf,  \* an endpoint, a company and a credential
          Keys, Explanations, Clients,
          MaxWrites,
          Abroad,        \* content of a company that another machine adopted
          Torn,          \* the bytes of a write that was cut off
          Absent

VARIABLES folder,    \* each file: its body and when it was written
          writer,    \* the setting that still has to reach entity.json
          export,    \* the running export
          zip,       \* the file at the destination of the export
          frozen,    \* snapshots beside the receipts
          receipts,
          clients,   \* running imports and retries
          sent,      \* requests on their way to the server
          adopted    \* what each company on the server holds, and by which key
source == <<folder, writer>>
client == <<frozen, receipts, clients>>
adoptionVars == <<source, export, zip, client, sent, adopted>>

Order == <<"entity", "evidence", "ledger">>
Files == {"entity", "evidence", "ledger", "extra"}
Now == CHOOSE n \in {folder[f].at : f \in Files} : \A f \in Files : folder[f].at <= n
Body(f) == folder[f].body
Write(f, b) == folder' = [folder EXCEPT ![f] = [body |-> b, at |-> Now + 1]]
Busy == Now < MaxWrites
------------------------------------------------------------------------------
(* THE COMPANY FOLDER, whose writers an export does not stop *)

Untouched == UNCHANGED <<export, zip, client, sent, adopted>>

\* A setting is committed to the ledger and then saved in entity.json.
SetLedger(s) == /\ Busy /\ writer = Absent
                /\ Write("ledger", [Body("ledger") EXCEPT !.setting = s])
                /\ writer' = s /\ Untouched
SetEntity == /\ writer # Absent
             /\ Write("entity", writer) /\ writer' = Absent /\ Untouched
WriterStops == writer # Absent /\ writer' = Absent /\ UNCHANGED folder /\ Untouched

\* Accrual evidence names a file of the folder by the hash it has now.
NameEvidence == /\ Busy /\ writer = Absent
                /\ Write("ledger", [Body("ledger") EXCEPT !.evidence = Body("evidence")])
                /\ UNCHANGED writer /\ Untouched
PutFile(f, b) == Busy /\ Write(f, b) /\ UNCHANGED writer /\ Untouched
------------------------------------------------------------------------------
(* EXPORT *)

\* Version control may move; every other file keeps its signature.
Stamps == [f \in Files |-> IF f = "extra" /\ Body(f) \in {Absent, "vcs"} THEN Absent ELSE folder[f].at]
SafeExclusions == {"vcs", "credential file", "derived"}
\* Everything else blocks the export, and so does data that holds a credential or a command.
Inspected(extra) == extra \in {Absent, "document"}
Portable(extra) == Inspected(extra) \/ extra \in SafeExclusions
EndExport == export' = Absent /\ UNCHANGED <<source, zip, client, sent, adopted>>

Inventory == /\ export = Absent
             /\ export' = [at |-> "reading", stamps |-> Stamps, extra |-> Body("extra"), got |-> <<>>]
             /\ UNCHANGED <<source, zip, client, sent, adopted>>

ReadFile == /\ export # Absent /\ export.at = "reading" /\ Len(export.got) < Len(Order)
            /\ LET f == Order[Len(export.got) + 1]
               IN IF folder[f].at = export.stamps[f]
                  THEN /\ export' = [export EXCEPT !.got = Append(@, Body(f))]
                       /\ UNCHANGED <<source, zip, client, sent, adopted>>
                  ELSE EndExport

SourceAsRead == \A n \in DOMAIN export.got : export.stamps[Order[n]] \in 0..Now
SourceKept == Stamps = export.stamps

Captured == /\ export # Absent /\ export.at = "reading" /\ Len(export.got) = Len(Order)
            /\ IF SourceKept /\ Portable(export.extra)
               THEN /\ export' = [export EXCEPT !.at = "captured"]
                    /\ UNCHANGED <<source, zip, client, sent, adopted>>
               ELSE EndExport

Copy(got) == [entity |-> got[1], evidence |-> got[2], ledger |-> got[3]]

\* The copy of the ledger agrees with the copies of entity.json and of the evidence.
AgreesOnEvidence(b) == b.ledger.evidence \in {Absent, b.evidence}
Agrees(b) == b.ledger.setting = b.entity /\ b.ledger.evidence \in {Absent, b.evidence}

\* The manifest is computed from the copy; whoever reads the bundle computes it again.
Anchored(b) == Agrees(b)
Readable(b) == b \notin {Absent, Torn} /\ Anchored(b)

Checked == /\ export # Absent /\ export.at = "captured"
           /\ IF Agrees(Copy(export.got)) /\ SourceKept
              THEN /\ export' = [export EXCEPT !.at = "checked"]
                   /\ UNCHANGED <<source, zip, client, sent, adopted>>
              ELSE EndExport

\* The destination is created, never replaced; a stop may leave half of it.
PublishBundle ==
  /\ export # Absent /\ export.at = "checked"
  /\ export' = Absent
  /\ \/ zip # Absent /\ UNCHANGED zip
     \/ zip = Absent /\ Anchored(Copy(export.got)) /\ zip' \in {Copy(export.got), Torn}
  /\ UNCHANGED <<source, client, sent, adopted>>
DiscardBundle == /\ zip # Absent /\ zip' = Absent
                 /\ UNCHANGED <<source, export, client, sent, adopted>>
------------------------------------------------------------------------------
(* IMPORT *)

\* A receipt is found by its connection and key.
ReceiptId(c, k) == <<c, k>>
Intent(id, snap, note) == [id |-> id, snap |-> snap, note |-> note]
Waits(p, phase) == clients[p] # Absent /\ clients[p].at = phase
Goes(p, phase) == clients' = [clients EXCEPT ![p].at = phase]
Leaves(p) == clients' = [clients EXCEPT ![p] = Absent]
Beyond == UNCHANGED <<source, export, zip>>

\* A receipt found under the key decides whether the input is the same.
Adopts(p, id, note) ==
  /\ clients[p] = Absent /\ Readable(zip)
  /\ LET wanted == Intent(id, zip, note)
     IN /\ id \in DOMAIN receipts => receipts[id].intent = wanted
        /\ clients' = [clients EXCEPT ![p] =
             [at |-> IF id \in DOMAIN receipts THEN "ready" ELSE "freezing",
              conn |-> id[1], intent |-> wanted, answer |-> Absent]]
  /\ UNCHANGED <<frozen, receipts, sent, adopted>> /\ Beyond

\* An existing snapshot must be the same bytes; a stop may leave half of a new one.
Freeze(p) ==
  /\ Waits(p, "freezing")
  /\ LET i == clients[p].intent
     IN \/ frozen[i.id] = Absent /\ frozen' = [frozen EXCEPT ![i.id] = i.snap] /\ Goes(p, "frozen")
        \/ frozen[i.id] = Absent /\ frozen' = [frozen EXCEPT ![i.id] = Torn] /\ Leaves(p)
        \/ frozen[i.id] = i.snap /\ Goes(p, "frozen") /\ UNCHANGED frozen
        \/ frozen[i.id] \notin {Absent, i.snap} /\ Leaves(p) /\ UNCHANGED frozen
  /\ UNCHANGED <<receipts, sent, adopted>> /\ Beyond

\* The receipt is created, never replaced, before anything is sent.
Record(p) ==
  /\ Waits(p, "frozen")
  /\ LET i == clients[p].intent
         new == [intent |-> i, status |-> "pending", answer |-> Absent]
     IN \/ /\ i.id \notin DOMAIN receipts /\ Goes(p, "ready")
           /\ receipts' = [id \in DOMAIN receipts \cup {i.id} |-> IF id = i.id THEN new ELSE receipts[id]]
        \/ /\ i.id \in DOMAIN receipts /\ UNCHANGED receipts
           /\ IF receipts[i.id].intent = i THEN Goes(p, "ready") ELSE Leaves(p)
  /\ UNCHANGED <<frozen, sent, adopted>> /\ Beyond

\* A retry reads the receipt; the connection it uses must be the receipt's own.
SameScope(c, id) == c = id[1]
Retry(p, c, id) ==
  /\ clients[p] = Absent /\ id \in DOMAIN receipts /\ SameScope(c, id)
  /\ clients' = [clients EXCEPT ![p] =
       [at |-> "ready", conn |-> c, intent |-> receipts[id].intent, answer |-> Absent]]
  /\ UNCHANGED <<frozen, receipts, sent, adopted>> /\ Beyond

\* What is sent is the frozen snapshot, if it is still the one of the receipt.
BundleAgain(p) == zip
Payload(p) == frozen[clients[p].intent.id]
Intact(p) == LET i == clients[p].intent IN Readable(frozen[i.id]) /\ frozen[i.id] = i.snap
Request(p) == [company |-> CompanyOf[clients[p].conn], key |-> clients[p].intent.id[2],
               snap |-> Payload(p), note |-> clients[p].intent.note]
Send(p) ==
  /\ Waits(p, "ready")
  /\ IF Intact(p) /\ receipts[clients[p].intent.id].status = "pending"
     THEN Goes(p, "waiting") /\ sent' = sent \cup {Request(p)}
     ELSE Leaves(p) /\ UNCHANGED sent  \* refused, or reported from the saved response
  /\ UNCHANGED <<frozen, receipts, adopted>> /\ Beyond

\* The answer names the snapshot the company holds; it must be the one of the receipt.
AnyAdoption(answer, i) == answer.snap # Absent
Confirms(answer, i) == answer.snap = i.snap
Save(p) ==
  /\ Waits(p, "answered") /\ Leaves(p)
  /\ LET i == clients[p].intent
     IN IF Confirms(clients[p].answer, i)
        THEN receipts' = [receipts EXCEPT ![i.id] =
               [@ EXCEPT !.status = "received", !.answer = clients[p].answer]]
        ELSE UNCHANGED receipts
  /\ UNCHANGED <<frozen, sent, adopted>> /\ Beyond

\* A stop, a lost connection or a timeout at any point; the request may still arrive.
Ends(p) == clients[p] # Absent /\ Leaves(p) /\ UNCHANGED <<frozen, receipts, sent, adopted>> /\ Beyond
------------------------------------------------------------------------------
(* THE SERVER, which this repository does not hold: it adopts once into an      *)
(* empty company and answers a known key with what that key did.                *)

Arrives(m) ==
  /\ m \in sent /\ adopted[m.company] = Absent
  /\ adopted' = [adopted EXCEPT ![m.company] = [key |-> m.key, snap |-> m.snap, note |-> m.note]]
  /\ UNCHANGED <<client, sent>> /\ Beyond
AnotherMachine(c, k) ==
  /\ adopted[c] = Absent
  /\ adopted' = [adopted EXCEPT ![c] = [key |-> k, snap |-> Abroad, note |-> Absent]]
  /\ UNCHANGED <<client, sent>> /\ Beyond
Answers(p) ==
  /\ Waits(p, "waiting")
  /\ LET m == Request(p)
     IN /\ adopted[m.company] # Absent /\ adopted[m.company].key = m.key
        /\ clients' = [clients EXCEPT ![p].at = "answered",
             ![p].answer = [snap |-> adopted[m.company].snap]]
  /\ UNCHANGED <<frozen, receipts, sent, adopted>> /\ Beyond
------------------------------------------------------------------------------
AdoptionInit ==
  /\ \E s \in Settings, d \in Documents :
       folder = [f \in Files |->
         [at |-> 0, body |-> CASE f = "entity" -> s [] f = "evidence" -> d [] f = "extra" -> Absent
                               [] f = "ledger" -> [setting |-> s, evidence |-> Absent]]]
  /\ writer = Absent /\ export = Absent /\ zip = Absent /\ sent = {}
  /\ frozen = [id \in Connections \X Keys |-> Absent] /\ receipts = <<>>
  /\ clients = [p \in Clients |-> Absent]
  /\ adopted = [c \in {CompanyOf[n] : n \in Connections} |-> Absent]

FolderNext == \/ \E s \in Settings : SetLedger(s)
              \/ SetEntity \/ WriterStops \/ NameEvidence
              \/ \E d \in Documents : PutFile("evidence", d)
              \/ \E x \in Extras : PutFile("extra", x)
ExportNext == Inventory \/ ReadFile \/ Captured \/ Checked \/ PublishBundle \/ DiscardBundle
ImportNext(p) == \/ \E id \in DOMAIN frozen, note \in Explanations : Adopts(p, id, note)
                 \/ Freeze(p) \/ Record(p) \/ Send(p) \/ Save(p) \/ Ends(p) \/ Answers(p)
                 \/ \E c \in Connections, id \in DOMAIN receipts : Retry(p, c, id)
ServerNext == \/ \E m \in sent : Arrives(m)
              \/ \E c \in DOMAIN adopted, k \in Keys : AnotherMachine(c, k)
AdoptionNext == FolderNext \/ ExportNext \/ (\E p \in Clients : ImportNext(p)) \/ ServerNext
AdoptionSpec == AdoptionInit /\ [][AdoptionNext]_adoptionVars
------------------------------------------------------------------------------
\* A copy that an export keeps is the folder as it stands when the last file has been
\* checked, with one setting in both places and the evidence the ledger names: never half
\* of a change, and never two states of the folder in one bundle.
Keeps == /\ export # Absent /\ export.at = "captured"
         /\ export' # Absent /\ export'.at = "checked"
KeepsCopy ==
  [][Keeps => /\ export'.got = [n \in 1..Len(Order) |-> folder[Order[n]].body]
              /\ folder["ledger"].body.setting = folder["entity"].body
              /\ folder["ledger"].body.evidence \in {Absent, folder["evidence"].body}]_<<export, folder>>

\* However often imports are cut off, repeated or started again from another bundle: a
\* company that this folder filled holds exactly the snapshot and the explanation of a
\* receipt kept here, and a receipt that reports success reports what its company holds.
AdoptionRecorded ==
  /\ \A c \in DOMAIN adopted :
       adopted[c] # Absent /\ adopted[c].snap # Abroad =>
         \E id \in DOMAIN receipts :
           /\ CompanyOf[id[1]] = c /\ id[2] = adopted[c].key
           /\ receipts[id].intent.snap = adopted[c].snap /\ receipts[id].intent.note = adopted[c].note
  /\ \A id \in DOMAIN receipts :
       receipts[id].status = "received" =>
         /\ adopted[CompanyOf[id[1]]] # Absent
         /\ adopted[CompanyOf[id[1]]].snap = receipts[id].intent.snap
==============================================================================

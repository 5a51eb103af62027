----------------------------- MODULE RemoteBooks -----------------------------
(* A folder bound to a company on a server.  Commands run there and leave a     *)
(* receipt here; answers come late, twice or never, and a receipt is retried    *)
(* with its original key.  What comes back may not undo what people, other      *)
(* sessions and other machines did meanwhile: the revision last seen, the       *)
(* output files, and the shared files that are downloaded, edited and put back. *)
EXTENDS Integers, Sequences

CONSTANTS Desks,        \* command lines in this folder
          Commands,     \* which of "read", "write", "get", "put", "replace" they run
          MaxOrders, MaxForeign, MaxEdits, MaxTokens,
          Unset

ASSUME BooksAssumption == Unset \notin Desks /\ MaxTokens \in Nat

VARIABLES books,     \* the server: revision, and who wrote the shared file at which
          done,      \* what the server answers under each key
          underway,  \* requests on their way
          seen,      \* last revision this folder observed
          base,      \* under each credential, revision of the shared file's local copy
          local,     \* the local copy: its edits and the server's text it comes from
          output,    \* the output file: when it was written
          orders,    \* receipts, in the order of their keys
          sessions,
          holder,    \* session that holds the lock of the remote state
          token, foreign, edits
server == <<books, done, underway>>
copies == <<seen, base, local, output>>
booksVars == <<server, copies, orders, sessions, holder, token, foreign, edits>>

Orders == DOMAIN orders
Mutates(kind) == kind = "write"
Puts(r) == r.kind \in {"put", "replace"}
Text(write) == [from |-> write, edit |-> 0]
Later(a, b) == IF a = Unset \/ b > a THEN b ELSE a
\* Every edit and every request of a command moves the clock.
Clock == edits + Len(orders)
At(p, phase) == sessions[p] # Unset /\ sessions[p].at = phase
Turns(p, s) == sessions' = [sessions EXCEPT ![p] = s]
Quits(p) == Turns(p, Unset)
Unlocked(p) == holder \in {Unset, p}
Else == UNCHANGED <<token, foreign, edits>>
------------------------------------------------------------------------------
(* THE SERVER, which this repository does not hold: a command that writes needs *)
(* the revision it expects, and a known key is answered as it was.              *)

Fresh(r) == r.kind = "read" \/ r.expected = books.rev
Accepts(k) ==
  /\ k \in underway /\ done[k] = Unset /\ Fresh(orders[k])
  /\ LET r == orders[k]
         rev == IF r.kind = "read" THEN books.rev ELSE books.rev + 1
     IN /\ books' = [rev |-> rev,
                     file |-> IF Puts(r) THEN [write |-> rev, own |-> TRUE, text |-> r.body] ELSE books.file]
        /\ done' = [done EXCEPT ![k] = rev]
  /\ UNCHANGED <<underway, copies, orders, sessions, holder>> /\ Else
\* A conflict changes nothing and ends the session that waits for it.
Refuses(p) ==
  /\ At(p, "waiting") /\ done[sessions[p].key] = Unset /\ ~Fresh(orders[sessions[p].key])
  /\ Quits(p) /\ UNCHANGED <<server, copies, orders, holder>> /\ Else
Elsewhere(file) ==
  /\ foreign < MaxForeign /\ foreign' = foreign + 1
  /\ books' = [rev |-> books.rev + 1,
               file |-> IF file THEN [write |-> books.rev + 1, own |-> FALSE, text |-> Text(books.rev + 1)]
                        ELSE books.file]
  /\ UNCHANGED <<done, underway, copies, orders, sessions, holder, token, edits>>
------------------------------------------------------------------------------
(* PEOPLE AND THE CREDENTIAL *)

EditLocal == /\ "put" \in Commands /\ edits < MaxEdits /\ edits' = edits + 1
             /\ local' = [local EXCEPT !.edit = edits']
             /\ UNCHANGED <<server, seen, base, output, orders, sessions, holder, token, foreign>>
EditOutput == /\ "read" \in Commands /\ edits < MaxEdits /\ edits' = edits + 1
              /\ output' = Clock + 1
              /\ UNCHANGED <<server, seen, base, local, orders, sessions, holder, token, foreign>>
\* Browser sign-in rotates the credential, and with it the identity of a receipt.
Rotate == /\ token < MaxTokens /\ token' = token + 1
          /\ UNCHANGED <<server, copies, orders, sessions, holder, foreign, edits>>
------------------------------------------------------------------------------
(* A COMMAND *)

\* The outputs are fingerprinted, or the file is read, while the request is prepared; the
\* credential is the one the command began with.
Prepared(kind) ==
  IF Puts([kind |-> kind])
  THEN [at |-> "preparing", kind |-> kind, token |-> token, body |-> local, existing |-> Unset, begun |-> 0]
  ELSE [at |-> "preparing", kind |-> kind, token |-> token, body |-> Unset, existing |-> output, begun |-> Clock]
Begin(p, kind) ==
  /\ sessions[p] = Unset /\ kind \in Commands \ {"get"} /\ Len(orders) < MaxOrders
  /\ Turns(p, Prepared(kind))
  /\ UNCHANGED <<server, copies, orders, holder>> /\ Else

\* A command that writes expects what the folder saw last; a file that is put back
\* expects its baseline, and without one the server may not hold it yet.  The baseline is
\* read after the body and without the lock: held is what the copy came from by then.
AskFirst(s) == IF Mutates(s.kind) THEN seen ELSE IF Puts(s) THEN base[s.token] ELSE Unset
MayCreateAny(s) == TRUE
MayCreate(s) == Puts(s) /\ s.kind # "replace" => books.file.write = 0
Asked(s, rev) == [at |-> "asked", kind |-> s.kind, token |-> s.token, body |-> s.body,
                  existing |-> s.existing, begun |-> s.begun, expected |-> rev,
                  held |-> IF Puts(s) THEN local.from ELSE 0]
Expects(p) ==
  /\ At(p, "preparing")
  /\ LET s == sessions[p]
     IN IF AskFirst(s) # Unset THEN Turns(p, Asked(s, AskFirst(s)))
        ELSE IF MayCreate(s) THEN Turns(p, Asked(s, books.rev)) ELSE Quits(p)
  /\ UNCHANGED <<server, copies, orders, holder>> /\ Else

SeenAsAnswered(rev) == rev
\* A delayed answer cannot take back a revision seen since.
Seen(rev) == Later(seen, rev)

\* The receipt is on disk before anything is sent.
Placed(s) == [kind |-> s.kind, body |-> s.body, existing |-> s.existing, begun |-> s.begun,
              expected |-> s.expected, held |-> s.held,
              born |-> Clock + 1, token |-> s.token, status |-> "pending"]
PlaceOrder(p) ==
  /\ At(p, "asked") /\ holder = Unset
  /\ LET s == sessions[p]
     IN /\ orders' = Append(orders, Placed(s))
        /\ done' = Append(done, Unset)
        /\ seen' = IF Mutates(s.kind) THEN Seen(s.expected) ELSE seen
        /\ Turns(p, [at |-> "ready", key |-> Len(orders) + 1])
  /\ UNCHANGED <<books, underway, base, local, output, holder>> /\ Else

\* A retry needs the credential of the receipt; a saved answer is not asked for again.
RetryOrder(p, k) ==
  /\ sessions[p] = Unset /\ k \in Orders /\ orders[k].token = token
  /\ Turns(p, [at |-> IF orders[k].status = "received" THEN "saved" ELSE "ready", key |-> k])
  /\ UNCHANGED <<server, copies, orders, holder>> /\ Else

SendOrder(p) ==
  /\ At(p, "ready")
  /\ underway' = underway \cup {sessions[p].key} /\ Turns(p, [sessions[p] EXCEPT !.at = "waiting"])
  /\ UNCHANGED <<books, done, copies, orders, holder>> /\ Else

\* The answer is saved in the receipt before it is used.
Received(p) ==
  /\ At(p, "waiting") /\ done[sessions[p].key] # Unset
  /\ orders' = [orders EXCEPT ![sessions[p].key].status = "received"]
  /\ Turns(p, [sessions[p] EXCEPT !.at = "saved"])
  /\ UNCHANGED <<server, copies, holder>> /\ Else

\* A newer download keeps its baseline when an old receipt is finished.
Baseline(t, rev) == [base EXCEPT ![t] = Later(base[t], rev)]

Remember(p) ==
  /\ At(p, "saved") /\ Unlocked(p)
  /\ seen' = Seen(done[sessions[p].key])
  /\ Turns(p, [sessions[p] EXCEPT !.at = "remembered"])
  /\ UNCHANGED <<server, base, local, output, orders, holder>> /\ Else
FinishPut(p) ==
  /\ At(p, "remembered") /\ Puts(orders[sessions[p].key]) /\ Unlocked(p)
  /\ LET k == sessions[p].key IN base' = Baseline(orders[k].token, done[k])
  /\ Quits(p)
  /\ UNCHANGED <<server, seen, local, output, orders, holder>> /\ Else

OutputUnlessGone(k) == output # Unset
\* An output is published only over what was there when the command was prepared; the last
\* fingerprint and the replacement are two steps, and no lock is held.
OutputUntouched(k) == output = orders[k].existing
PublishOutput(p) ==
  /\ At(p, "remembered") /\ ~Puts(orders[sessions[p].key])
  /\ LET k == sessions[p].key
     IN IF OutputUntouched(k) /\ output # orders[k].born
        THEN Turns(p, [at |-> "publishing", key |-> k, current |-> output]) ELSE Quits(p)
  /\ UNCHANGED <<server, copies, orders, holder>> /\ Else
ReplaceOutput(p) ==
  /\ At(p, "publishing")
  /\ output' = orders[sessions[p].key].born /\ Quits(p)
  /\ UNCHANGED <<server, seen, base, local, orders, holder>> /\ Else

\* A stop, a lost answer or a timeout, at any point; the request may still arrive.
Breaks(p) == /\ sessions[p] # Unset /\ Quits(p)
             /\ holder' = IF holder = p THEN Unset ELSE holder
             /\ UNCHANGED <<server, copies, orders>> /\ Else
------------------------------------------------------------------------------
(* DOWNLOADING A SHARED FILE *)

BeginGet(p) ==
  /\ sessions[p] = Unset /\ "get" \in Commands
  /\ Turns(p, [at |-> "getting", token |-> token, existing |-> local])
  /\ UNCHANGED <<server, copies, orders, holder>> /\ Else
AnswerGet(p) ==
  /\ At(p, "getting") /\ books.file.write # 0
  /\ LET s == sessions[p]
     IN Turns(p, [at |-> "got", token |-> s.token, existing |-> s.existing,
                  rev |-> books.rev, text |-> books.file.text])
  /\ UNCHANGED <<server, copies, orders, holder>> /\ Else
\* The lock keeps other downloads out from the comparison until the baseline is written;
\* people do not take it.
PublishGet(p) ==
  /\ At(p, "got") /\ holder = Unset
  /\ LET s == sessions[p]
     IN IF local \in {s.existing, s.text}
        THEN /\ Turns(p, [s EXCEPT !.at = IF local = s.text THEN "tracking" ELSE "replacing"])
             /\ holder' = p
        ELSE Quits(p) /\ UNCHANGED holder
  /\ UNCHANGED <<server, copies, orders>> /\ Else
ReplaceLocal(p) ==
  /\ At(p, "replacing")
  /\ local' = sessions[p].text /\ Turns(p, [sessions[p] EXCEPT !.at = "tracking"])
  /\ UNCHANGED <<server, seen, base, output, orders, holder>> /\ Else
Track(p) ==
  /\ At(p, "tracking")
  /\ base' = [base EXCEPT ![sessions[p].token] = sessions[p].rev] /\ holder' = Unset
  /\ Turns(p, [at |-> "tracked", rev |-> sessions[p].rev])
  /\ UNCHANGED <<server, seen, local, output, orders>> /\ Else
RememberGet(p) ==
  /\ At(p, "tracked") /\ holder = Unset
  /\ seen' = Seen(sessions[p].rev) /\ Quits(p)
  /\ UNCHANGED <<server, base, local, output, orders, holder>> /\ Else
------------------------------------------------------------------------------
BooksInit ==
  /\ books = [rev |-> 0, file |-> [write |-> 0, own |-> TRUE, text |-> Text(0)]]
  /\ done = <<>> /\ underway = {} /\ seen = Unset
  /\ base = [t \in 0..MaxTokens |-> Unset]
  /\ local = Text(0) /\ output = Unset /\ orders = <<>>
  /\ sessions = [p \in Desks |-> Unset] /\ holder = Unset
  /\ token = 0 /\ foreign = 0 /\ edits = 0
\* What a session does next.
Works(p) == \/ \E kind \in Commands : Begin(p, kind)
            \/ Refuses(p) \/ Expects(p) \/ PlaceOrder(p) \/ SendOrder(p) \/ Received(p)
            \/ Remember(p) \/ FinishPut(p) \/ PublishOutput(p) \/ ReplaceOutput(p) \/ Breaks(p)
            \/ \E k \in Orders : RetryOrder(p, k)
            \/ BeginGet(p) \/ AnswerGet(p) \/ PublishGet(p) \/ ReplaceLocal(p) \/ Track(p) \/ RememberGet(p)
BooksNext == \/ \E k \in Orders : Accepts(k)
             \/ \E file \in BOOLEAN : Elsewhere(file)
             \/ EditLocal \/ EditOutput \/ Rotate
             \/ \E p \in Desks : Works(p)
BooksSpec == BooksInit /\ [][BooksNext]_booksVars
------------------------------------------------------------------------------
\* However late an answer comes and however often a receipt is retried, in whatever order:
\* the revision last seen only grows; an output that a person or a later command wrote after
\* a command was prepared is not replaced by that command, unless it came between the last
\* fingerprint and the replacement; and a text of another machine is replaced by a file put
\* back from here only if the text that was sent was made from it or from a later one, unless
\* the person asked to replace it or another session downloaded into the file between
\* reading it and reading its baseline.
SeenOnlyGrows == seen' # seen => seen = Unset \/ seen' > seen
CameSinceLooked(k) ==
  \E p \in DOMAIN sessions : At(p, "publishing") /\ sessions[p].key = k /\ sessions[p].current # output
OutputsKept ==
  \A k \in Orders : output' # output /\ output # Unset /\ ~Puts(orders[k]) /\ output' = orders[k].born
                      => output <= orders[k].begun \/ CameSinceLooked(k)
\* Who put the file back did it over another machine's text.
Replaces(k) == done[k] = Unset /\ done'[k] # Unset /\ orders[k].kind = "put" /\ ~books.file.own
DownloadedBetween(r) == r.held > r.body.from
OthersTextKept ==
  \A k \in Orders : Replaces(k) => orders[k].body.from >= books.file.write \/ DownloadedBetween(orders[k])
KeepsWhatCameSince == [][SeenOnlyGrows /\ OutputsKept /\ OthersTextKept]_booksVars

\* Compare-and-swap as the workspace guide words it: the revision that a put carries is that
\* of its contents, so a text of another machine is replaced only by contents that knew it
\* (run_file reads the contents first and their baseline later).
CarriesItsOwnBaseline ==
  [][\A k \in Orders : Replaces(k) => orders[k].body.from >= books.file.write]_booksVars
==============================================================================

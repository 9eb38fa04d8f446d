------------------------- MODULE DatasetMarketplace -------------------------
(***************************************************************************)
(* cadgenesis.collaboration: dataset_marketplace.DatasetMarketplace on top *)
(* of contributors.ContributorRegistry.  Each holds a lock of its own      *)
(* from the first look at its tables to its last write, and publishing     *)
(* needs both locks in turn.  A call changes the tables in memory first    *)
(* and then rewrites one file, or two in turn; a write that raises leaves  *)
(* memory ahead of the files.  The calls under one lock are one step each, *)
(* with all the places where a write of theirs can raise: a process that   *)
(* dies there leaves the files of such a step, followed by RestartMarket.  *)
(* Records are a set: import_data() appends a record that is there already *)
(* once more, which no property here counts.                               *)
(***************************************************************************)
EXTENDS Integers, FiniteSets

CONSTANTS
  People,      \* contributor ids
  Emails,
  Datasets,    \* dataset ids
  Publishers,  \* threads that publish
  NoOwner, NoEmail,
  MaxStops     \* bounds the failed writes, restarts, exports and imports

ASSUME MarketAssumption ==
  NoOwner \notin People /\ NoEmail \notin Emails /\ "none" \notin Datasets /\ MaxStops \in Nat

VARIABLES
  email,        \* of each registered contributor, or NoEmail
  credits,      \* contribution records: who published what
  owner,        \* of each dataset in the marketplace, or NoOwner
  stored,       \* what the three files say of these
  stops,        \* failed writes, restarts, exports and imports so far
  publishing,   \* per thread: what publish_dataset() is about, and how far it came
  issued,       \* the dataset ids that uuid4() has given
  backup,       \* what export() returned last, and whose calls were cut off then
  cutOff,       \* ghost: contributors whose last registration or deletion raised half way
  uncredited,   \* ghost: datasets whose publication raised, or did not survive, half way
  deleted,      \* ghost: those deleted at some time
  unread,       \* ghost: files that were unreadable in some start
  mixed         \* ghost: data was imported

marketVars == <<email, credits, owner, stored, publishing, issued, backup, cutOff, uncredited,
                deleted, unread, mixed, stops>>

MarketFiles == {"contributors", "contributions", "metadata"}
NotPublishing == [at |-> "idle", who |-> NoOwner, dataset |-> "none"]
Nobody == [p \in People |-> NoEmail]
NoDatasets == [d \in Datasets |-> NoOwner]
NoBackup == [email |-> Nobody, credits |-> {}, cutOff |-> {}]
Registered == {p \in People : email[p] # NoEmail}
Published == {d \in Datasets : owner[d] # NoOwner}
MarketFree == \A t \in Publishers : publishing[t] = NotPublishing

MarketInit ==
  /\ email = Nobody /\ credits = {} /\ owner = NoDatasets
  /\ stored = [email |-> Nobody, credits |-> {}, owner |-> NoDatasets]
  /\ publishing = [t \in Publishers |-> NotPublishing] /\ issued = {} /\ backup = NoBackup
  /\ cutOff = {} /\ uncredited = {} /\ deleted = {} /\ unread = {} /\ mixed = FALSE /\ stops = 0

NoStop == stops' = stops
OneStop == stops < MaxStops /\ stops' = stops + 1

\* register(), and update(), which lets a contributor keep the email.
RegisterOrUpdate(p, m) ==
  /\ m = email[p] \/ \A q \in Registered : email[q] # m
  /\ email' = [email EXCEPT ![p] = m]
  /\ \/ stored' = [stored EXCEPT !.email = email'] /\ NoStop /\ cutOff' = cutOff \ {p}
     \/ stored' = stored /\ OneStop /\ cutOff' = cutOff \cup ({p} \ Registered)
  /\ UNCHANGED <<credits, owner, publishing, issued, backup, uncredited, deleted, unread, mixed>>

CreditsOf(p) == {c \in credits : c[1] = p}

\* delete() drops the contributor and the records, and writes the contributors first.
Delete(p) ==
  /\ p \in Registered
  /\ email' = [email EXCEPT ![p] = NoEmail]
  /\ credits' = credits \ CreditsOf(p) /\ deleted' = deleted \cup {p}
  /\ \/ /\ stored' = [stored EXCEPT !.email = email', !.credits = credits']
        /\ NoStop /\ cutOff' = cutOff \ {p}
     \/ /\ stored' \in {stored, [stored EXCEPT !.email = email']}
        /\ OneStop /\ cutOff' = cutOff \cup {p}
  /\ UNCHANGED <<owner, publishing, issued, backup, uncredited, unread, mixed>>

\* publish_dataset(): the owner is known, and the data is copied to the registry of
\* datasets; a copy that fails raises before anything is changed.
BeginPublish(t, p, d) ==
  /\ MarketFree /\ p \in Registered /\ d \notin issued
  /\ publishing' = [publishing EXCEPT ![t] = [at |-> "known", who |-> p, dataset |-> d]]
  /\ issued' = issued \cup {d} /\ NoStop
  /\ UNCHANGED <<email, credits, owner, stored, backup, cutOff, uncredited, deleted, unread, mixed>>

\* A write that raises leaves the dataset in memory, and publish_dataset() raises.
WriteMetadata(t) ==
  LET c == publishing[t] IN
  /\ c.at = "known"
  /\ owner' = [owner EXCEPT ![c.dataset] = c.who]
  /\ \/ /\ stored' = [stored EXCEPT !.owner = owner'] /\ NoStop
        /\ publishing' = [publishing EXCEPT ![t].at = "written"] /\ uncredited' = uncredited
     \/ /\ stored' = stored /\ OneStop
        /\ publishing' = [publishing EXCEPT ![t] = NotPublishing]
        /\ uncredited' = uncredited \cup {c.dataset}
  /\ UNCHANGED <<email, credits, issued, backup, cutOff, deleted, unread, mixed>>

\* The record of a publication, which publish_dataset() asks for last.
Credit(c) ==
  /\ credits' = credits \cup {<<c.who, c.dataset>>}
  /\ \/ stored' = [stored EXCEPT !.credits = credits'] /\ NoStop /\ uncredited' = uncredited
     \/ stored' = stored /\ OneStop /\ uncredited' = uncredited \cup {c.dataset}

\* Mutant of AddContribution: the owner was known, so nothing is asked again.
AddContributionUnasked(t) ==
  /\ publishing[t].at = "written" /\ Credit(publishing[t])
  /\ publishing' = [publishing EXCEPT ![t] = NotPublishing]
  /\ UNCHANGED <<email, owner, issued, backup, cutOff, deleted, unread, mixed>>

\* add_contribution(), unless the owner was deleted meanwhile: then publish_dataset()
\* raises, and the dataset is in the marketplace.
AddContribution(t) ==
  LET c == publishing[t] IN
  /\ c.at = "written"
  /\ publishing' = [publishing EXCEPT ![t] = NotPublishing]
  /\ \/ c.who \in Registered /\ Credit(c)
     \/ /\ c.who \notin Registered /\ uncredited' = uncredited \cup {c.dataset}
        /\ NoStop /\ UNCHANGED <<credits, stored>>
  /\ UNCHANGED <<email, owner, issued, backup, cutOff, deleted, unread, mixed>>

Tables == <<email, credits, owner, publishing, issued, backup, cutOff, uncredited, deleted, unread, mixed>>

\* verify_contribution() and update_impact_score(): who is credited stays, and a record
\* that failed to be written is written with the rest.
RewriteContributions ==
  /\ credits # {} /\ stored' = [stored EXCEPT !.credits = credits]
  /\ NoStop /\ UNCHANGED Tables

\* update_dataset() and add_version(): likewise, for the datasets.
RewriteMetadata ==
  /\ MarketFree /\ Published # {} /\ stored' = [stored EXCEPT !.owner = owner]
  /\ NoStop /\ UNCHANGED Tables

ExportRegistry ==
  /\ backup' = [email |-> email, credits |-> credits, cutOff |-> cutOff] /\ OneStop
  /\ UNCHANGED <<email, credits, owner, stored, publishing, issued, cutOff, uncredited, deleted, unread, mixed>>

\* import_data(): no contributor is compared with another one's email.
ImportRegistry(overwrite) ==
  LET back == {p \in People : backup.email[p] # NoEmail} IN
  /\ backup # NoBackup /\ OneStop
  /\ email' = [p \in People |-> IF p \in back /\ (overwrite \/ p \notin Registered)
                                THEN backup.email[p] ELSE email[p]]
  /\ credits' = credits \cup backup.credits /\ mixed' = TRUE
  /\ \/ /\ stored' = [stored EXCEPT !.email = email', !.credits = credits']
        /\ cutOff' = (cutOff \cup backup.cutOff) \ back
     \/ /\ stored' \in {stored, [stored EXCEPT !.email = email']}
        /\ cutOff' = cutOff \cup backup.cutOff \cup (back \ Registered)
  /\ UNCHANGED <<owner, publishing, issued, backup, uncredited, deleted, unread>>

\* The process ends, in the middle of a publication or not, and another one reads the
\* files: those that are unreadable count as empty, and stay until they are written.
RestartMarket(bad) ==
  /\ email' = IF "contributors" \in bad THEN Nobody ELSE stored.email
  /\ credits' = IF "contributions" \in bad THEN {} ELSE stored.credits
  /\ owner' = IF "metadata" \in bad THEN NoDatasets ELSE stored.owner
  /\ publishing' = [t \in Publishers |-> NotPublishing]
  /\ uncredited' = uncredited \cup {publishing[t].dataset : t \in {t \in Publishers : publishing[t].at = "written"}}
  /\ unread' = unread \cup bad /\ OneStop
  /\ UNCHANGED <<stored, issued, backup, cutOff, deleted, mixed>>

MarketNext ==
  \/ \E p \in People : \/ \E m \in Emails : RegisterOrUpdate(p, m)
                       \/ Delete(p)
                       \/ \E t \in Publishers, d \in Datasets : BeginPublish(t, p, d)
  \/ \E t \in Publishers : WriteMetadata(t) \/ AddContribution(t)
  \/ RewriteContributions \/ RewriteMetadata
  \/ ExportRegistry \/ \E overwrite \in BOOLEAN : ImportRegistry(overwrite)
  \/ \E bad \in SUBSET MarketFiles : RestartMarket(bad)

MarketSpec == MarketInit /\ [][MarketNext]_marketVars

-----------------------------------------------------------------------------
(* Properties                                                              *)

MarketTypeOK ==
  /\ {email, stored.email} \subseteq [People -> Emails \cup {NoEmail}]
  /\ credits \cup stored.credits \subseteq People \X Datasets
  /\ {owner, stored.owner} \subseteq [Datasets -> People \cup {NoOwner}]
  /\ cutOff \cup deleted \subseteq People /\ uncredited \cup issued \subseteq Datasets
  /\ unread \subseteq MarketFiles /\ stops \in 0..MaxStops

\* The two components agree, before and after every restart.  A dataset has the record of
\* its owner, unless that one was deleted, publishing it raised or did not survive, or the
\* records were unreadable.  A record has its contributor, unless the last registration or
\* deletion of that one was cut off by a failed write, or the contributors were
\* unreadable.  A record is of the owner of its dataset, unless the datasets were
\* unreadable.  And no two contributors have one email, unless a backup was brought in.
RecordsAgree ==
  /\ \A d \in Published :
       \/ <<owner[d], d>> \in credits \/ owner[d] \in deleted \/ d \in uncredited
       \/ "contributions" \in unread \/ \E t \in Publishers : publishing[t].dataset = d
  /\ \A c \in credits : c[1] \in Registered \/ c[1] \in cutOff \/ "contributors" \in unread
  /\ \A c \in credits : owner[c[2]] = c[1] \/ "metadata" \in unread
  /\ \A p, q \in Registered : email[p] = email[q] => p = q \/ mixed
=============================================================================

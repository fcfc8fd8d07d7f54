------------------------------ MODULE AccountMgr ------------------------------
(***************************************************************************)
(* The account server (AccountServer/accountMgr.cpp, accountHandler.cpp):  *)
(* registration and login against the account collection of mongod.        *)
(*                                                                         *)
(* One thread runs the handlers, so a request is handled in one step.  The *)
(* handler's calls to mongod may fail one by one: an exception in findJson *)
(* reads as "no such account", one in db_count as 0, and the result of     *)
(* saveJson is ignored.  m_MongoConn does not reconnect, so once a call    *)
(* has failed on the connection every later one fails too, until the       *)
(* process restarts.  An update is not acknowledged: it may be lost with   *)
(* the connection without an exception.                                    *)
(*                                                                         *)
(* Texts go to mongod as JSON squeezed by HelpFunctions::tighten, which    *)
(* drops the blanks outside of strings but takes the escaped quote of a    *)
(* text for the end of its string: blanks behind it are dropped, and if    *)
(* the text has an odd number of quotes, so are those of the next text.    *)
(***************************************************************************)
EXTENDS Integers, FiniteSets

CONSTANTS
  Text,          \* what clients may send as user name or password
  OddQuotes,     \* the texts with an odd number of quotes
  Tighten,       \* what HelpFunctions::tighten leaves of each text
  TightenLate,   \* ... when it comes after a text with an odd number
  Unreliable,    \* calls mongod may answer with an error of their own
  MaxPlayerId,   \* bound: playerIds handed out
  MaxGrants      \* bound: different successful registrations

ASSUME AccountAssumption ==
  /\ OddQuotes \subseteq Text
  /\ Tighten \in [Text -> Text]
  /\ TightenLate \in [Text -> Text]
  /\ Unreliable \subseteq {"find", "count"}
  /\ MaxPlayerId \in Nat
  /\ MaxGrants \in Nat

PlayerId == 1 .. MaxPlayerId
Document == [pi : PlayerId, un : Text, up : Text]

VARIABLES
  accounts,      \* the account collection, a set of documents
  dbUp,          \* m_MongoConn works
  granted,       \* history: registrations answered with errorcode 0
  lost,          \* history: those of them whose update was lost
  rsp            \* the last reply, with the request it answers

vars == <<accounts, dbUp, granted, lost, rsp>>

Rsp(proto, code, pi, un, up) ==
  [proto |-> proto, code |-> code, pi |-> pi, un |-> un, up |-> up]

(* The type invariant of the account server. *)
TypeOK ==
  /\ accounts \in SUBSET Document
  /\ dbUp \in BOOLEAN
  /\ granted \in SUBSET Document
  /\ lost \in SUBSET granted

(* The process starts: connectDB may fail, which nobody looks at.            *)
Init ==
  /\ accounts = {}
  /\ dbUp \in BOOLEAN
  /\ granted = {}
  /\ lost = {}
  /\ rsp = [proto |-> "none"]

-------------------------------------------------------------------------------
(* The document saveJson sends for d.                                        *)
Stored(d) ==
  [pi |-> d.pi,
   un |-> Tighten[d.un],
   up |-> IF d.un \in OddQuotes THEN TightenLate[d.up] ELSE Tighten[d.up]]

(* saveJson without tighten. *)
UpsertRaw(d) == {e \in accounts : e.pi # d.pi} \cup {d}

(* saveJson: the tightened document replaces the one with its playerId, or   *)
(* is inserted.                                                              *)
Upsert(d) == {e \in accounts : e.pi # d.pi} \cup {Stored(d)}

(* findJson that ignores its query. *)
NamedAny(un) == accounts

(* The documents findOne may return for a user name.                         *)
Named(un) == {d \in accounts : d.un = Tighten[un]}

(* What a call may come to: "ok", "error" (this call only) or "down" (the    *)
(* connection is gone, for this call and all later ones).                    *)
Outcome(call, up) ==
  IF up THEN {"ok", "down"} \cup (IF call \in Unreliable THEN {"error"} ELSE {})
        ELSE {"down"}

(* db_count that has missed the last account. *)
DbCountStale(out) ==
  IF out = "ok" /\ accounts # {} THEN Cardinality(accounts) - 1 ELSE 0

(* db_count: 0 when the count fails.                                         *)
DbCount(out) == IF out = "ok" THEN Cardinality(accounts) ELSE 0

(* handlePlayerRegist past its lookup: the next playerId is the number of    *)
(* accounts plus one; success is reported whatever becomes of the update.    *)
NewAccount(un, up, count, save) ==
  LET d == [pi |-> DbCount(count) + 1, un |-> un, up |-> up] IN
  /\ d.pi \in PlayerId
  /\ Cardinality(granted) < MaxGrants
  /\ accounts' = IF save = "ok" THEN Upsert(d) ELSE accounts
  /\ lost' = IF save = "ok" THEN lost \ {d} ELSE lost \cup {d}
  /\ granted' = granted \cup {d}
  /\ dbUp' = (save = "ok")
  /\ rsp' = Rsp("regist", 0, d.pi, un, up)

(* handlePlayerRegist without its lookup. *)
RegistUnchecked(un, up) ==
  \E find \in Outcome("find", dbUp) :
    \E count \in Outcome("count", find # "down") :
      \E save \in Outcome("save", count # "down") : NewAccount(un, up, count, save)

(* handlePlayerRegist.                                                       *)
HandlePlayerRegist(un, up) ==
  \E find \in Outcome("find", dbUp) :
    \/ /\ find = "ok" /\ Named(un) # {}
       /\ rsp' = Rsp("regist", -1, 0, un, up)
       /\ UNCHANGED <<accounts, dbUp, granted, lost>>
    \/ /\ ~(find = "ok" /\ Named(un) # {})
       /\ \E count \in Outcome("count", find # "down") :
            \E save \in Outcome("save", count # "down") :
              NewAccount(un, up, count, save)

(* handlePlayerLogin that tightens the password it compares. *)
LoginTightened(un, up) ==
  /\ dbUp /\ Named(un) # {}
  /\ \E d \in Named(un) :
       rsp' = IF d.up # Tighten[up] THEN Rsp("login", -1, 0, un, up)
                                    ELSE Rsp("login", 0, d.pi, un, up)
  /\ UNCHANGED <<accounts, dbUp, granted, lost>>

(* handlePlayerLogin: 1 for no such account, -1 for a wrong password, 0 and  *)
(* the playerId otherwise.                                                   *)
HandlePlayerLogin(un, up) ==
  /\ \E find \in Outcome("find", dbUp) :
       /\ dbUp' = (dbUp /\ find # "down")
       /\ \/ /\ find # "ok" \/ Named(un) = {}
             /\ rsp' = Rsp("login", 1, 0, un, up)
          \/ /\ find = "ok"
             /\ \E d \in Named(un) :
                  rsp' = IF d.up # up THEN Rsp("login", -1, 0, un, up)
                                      ELSE Rsp("login", 0, d.pi, un, up)
  /\ UNCHANGED <<accounts, granted, lost>>

(* Either handler, when "msg" is not an array of two.                        *)
HandleMalformed ==
  /\ rsp' = [proto |-> "malformed", code |-> -1]
  /\ UNCHANGED <<accounts, dbUp, granted, lost>>

(* The process stops, or crashes, and is started again.                      *)
Restart ==
  /\ dbUp' \in BOOLEAN
  /\ rsp' = [proto |-> "none"]
  /\ UNCHANGED <<accounts, granted, lost>>

Next ==
  \/ \E un, up \in Text : HandlePlayerRegist(un, up)
  \/ \E un, up \in Text : HandlePlayerLogin(un, up)
  \/ HandleMalformed
  \/ Restart

Spec == Init /\ [][Next]_vars

-------------------------------------------------------------------------------
(* A user name belongs to one account, unless mongod answers a lookup with   *)
(* an error and the name is taken for free: losing the connection in the     *)
(* middle of a registration does not do it (accountMgr.cpp:74-93).           *)
NamesUnique ==
  "find" \notin Unreliable =>
    \A d, e \in accounts : d.un = e.un => d = e

(* An account is never changed or overwritten by a later registration,       *)
(* unless mongod answers a count with an error and playerId 1 is handed out  *)
(* again: lost connections, lost updates and restarts do not do it           *)
(* (accountMgr.cpp:82-93, 129-146).                                          *)
AccountsPermanent ==
  [][ "count" \notin Unreliable => accounts \subseteq accounts' ]_vars

(* A registration that was answered with success and whose update was not    *)
(* lost is in the collection under the playerId the client was told, for     *)
(* good; in particular no two of them have the same playerId                 *)
(* (accountMgr.cpp:82-96).                                                   *)
GrantDurable ==
  "count" \notin Unreliable => \A g \in granted \ lost : Stored(g) \in accounts

(* Whoever logs in gets a playerId that a registration under that stored     *)
(* name was told, whatever has failed before (accountMgr.cpp:57-58, 94-95).  *)
LoginMatchesGrant ==
  rsp.proto = "login" => (rsp.code = 0 =>
    \E g \in granted : g.pi = rsp.pi /\ Tighten[g.un] = Tighten[rsp.un])

(* A login with the password its account was registered with is answered    *)
(* "wrong password" (accountMgr.cpp:52) only where tighten had changed that  *)
(* password on its way to mongod; lost connections and updates, restarts and *)
(* other registrations never do it, as long as mongod itself answers without *)
(* errors.                                                                   *)
RefusalExplained ==
  rsp.proto = "login" => (rsp.code = -1 /\ Unreliable = {} =>
    \A g \in granted \ lost :
      g.un = rsp.un /\ g.up = rsp.up => Stored(g).up # g.up)
===============================================================================

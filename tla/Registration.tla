---------------------------- MODULE Registration ----------------------------
(***************************************************************************)
(* How a business comes to be served: BusinessRegister stores it and then  *)
(* creates its tables, ExportAddressByPublicKeys fills them with addresses *)
(* (services/handler.go), processBatch looks the addresses of every        *)
(* transfer up in the tables of every business to tell what the transfer   *)
(* is (worker/synchronizer.go), and the Notifier serves the businesses it  *)
(* knew when it was constructed.                                           *)
(*                                                                         *)
(* A block has one transfer here, and what the scan finds is recorded at   *)
(* once; how a batch travels is in BlockScan and Ledger.                   *)
(***************************************************************************)
EXTENDS Integers, SequencesExt, FiniteSetsExt

CONSTANTS
    Business,      \* identifiers a business may register with
    Address,       \* addresses, of businesses and of the world outside
    Batches,       \* what a request may export: functions from address to type
    Zero,          \* the address an empty string is read as
    Absent,        \* no row
    MaxBlocks,     \* bound: length of the chain
    MaxExports,    \* bound: number of addresses exported
    Faults,        \* kinds of failure the environment may inject
    MaxFaults      \* bound: number of failures injected

AddressType == {"user", "hot", "cold"}

ASSUME RegistrationAssumption ==
    /\ Zero \in Address
    /\ Absent \notin AddressType /\ \A some \in SUBSET Business : some # Absent
    /\ \A batch \in Batches :
           /\ DOMAIN batch \subseteq Address \ {Zero}
           /\ \A a \in DOMAIN batch : batch[a] \in AddressType
    /\ MaxBlocks \in Nat /\ MaxExports \in Nat /\ MaxFaults \in Nat
    /\ Faults \subseteq {"create_error", "lost_ack", "rpc_error", "lookup_error",
                         "scan_error", "crash"}

VARIABLES
    businesses,    \* rows of table business
    creating,      \* businesses whose registration has yet to create the tables
    tables,        \* per business the tables made from the templates
    welcomed,      \* businesses answered "register business success"
    addresses,     \* per business and address the type of its row, or Absent
    exported,      \* per business the addresses, with types, it was answered
    chain,         \* transfers mined; with the types answered by then
    next,          \* block to be scanned
    rest,          \* businesses whose tables are still to be looked at, or Absent
    seenTo,        \* type found for the receiver in the table at hand
    found,         \* what the block is for the businesses looked at
    missed,        \* blocks and businesses for which a lookup failed unnoticed
    recorded,      \* what the Finder has recorded
    known,         \* businesses the Notifier serves
    notified,      \* what it has reported
    faults         \* failures injected so far

registerVars == <<businesses, creating, tables, welcomed>>
serviceVars == <<addresses, exported>>
scanVars == <<next, rest, seenTo, found, missed, recorded>>
notifyVars == <<known, notified>>
vars == <<registerVars, serviceVars, chain, scanVars, notifyVars, faults>>

Fault(kind) ==
    /\ kind \in Faults
    /\ faults < MaxFaults
    /\ faults' = faults + 1

Template ==
    {"addresses", "balances", "transactions", "deposits", "withdraws", "internals", "tokens"}
Has(b, table) == table \in tables[b]

Init ==
    /\ businesses = {} /\ creating = {}
    /\ tables = [b \in Business |-> {}] /\ welcomed = {}
    /\ addresses = [b \in Business |-> [a \in Address |-> Absent]]
    /\ exported = [b \in Business |-> {}]
    /\ chain = <<>>
    /\ next = 1 /\ rest = Absent /\ seenTo = Absent /\ found = {} /\ missed = {} /\ recorded = {}
    /\ known = {} /\ notified = {} /\ faults = 0

-----------------------------------------------------------------------------
\* A business that is registered already is refused by the unique index on
\* business_uid, and its tables are left as they are.
BusinessRegister(b) ==
    /\ b \notin businesses
    /\ businesses' = businesses \union {b}
    /\ creating' = creating \union {b}
    /\ UNCHANGED <<tables, welcomed, serviceVars, chain, scanVars, notifyVars, faults>>

\* Mutant: the tables are not created in one transaction.
CreateTablesPartly(b) ==
    /\ b \in creating
    /\ \/ tables' = [tables EXCEPT ![b] = Template] /\ UNCHANGED faults
       \/ tables' = [tables EXCEPT ![b] = {"addresses", "balances"}] /\ Fault("create_error")
    /\ creating' = creating \ {b}
    /\ welcomed' = welcomed \union {b}
    /\ UNCHANGED <<businesses, serviceVars, chain, scanVars, notifyVars>>

\* CreateTableFromTemplate: a statement that fails takes the others with it, and
\* no error gets out.
CreateTables(b) ==
    /\ b \in creating
    /\ \/ tables' = [tables EXCEPT ![b] = Template] /\ UNCHANGED faults
       \/ UNCHANGED tables /\ Fault("create_error")
    /\ creating' = creating \ {b}
    /\ welcomed' = welcomed \union {b}
    /\ UNCHANGED <<businesses, serviceVars, chain, scanVars, notifyVars>>

-----------------------------------------------------------------------------
\* ExportAddressByPublicKeys.

Exports == Cardinality({r \in Business \X Address : addresses[r[1]][r[2]] # Absent})

\* Mutant: a row that exists is overwritten.
StoreAddressesOver(b, batch) ==
    /\ Has(b, "addresses") /\ Has(b, "balances")
    /\ addresses' = [addresses EXCEPT ![b] =
                        [a \in Address |-> IF a \in DOMAIN batch THEN batch[a] ELSE @[a]]]

\* Addresses and their balances in one transaction; an address is unique.
StoreAddresses(b, batch) ==
    /\ Has(b, "addresses") /\ Has(b, "balances")
    /\ \A a \in DOMAIN batch : addresses[b][a] = Absent
    /\ addresses' = [addresses EXCEPT ![b] =
                        [a \in Address |-> IF a \in DOMAIN batch THEN batch[a] ELSE @[a]]]

\* An error stores and answers nothing, unless only the reply to the commit is
\* lost.  An address the node fails to derive is the empty string.
ExportAddress(b, batch) ==
    /\ Exports + Cardinality(DOMAIN batch) <= MaxExports
    /\ \/ /\ StoreAddresses(b, batch)
          /\ exported' = [exported EXCEPT ![b] =
                             @ \union {<<a, batch[a]>> : a \in DOMAIN batch}]
          /\ UNCHANGED faults
       \/ StoreAddresses(b, batch) /\ UNCHANGED exported /\ Fault("lost_ack")
       \/ /\ Cardinality(DOMAIN batch) = 1
          /\ \E a \in DOMAIN batch : StoreAddresses(b, [z \in {Zero} |-> batch[a]])
          /\ UNCHANGED exported /\ Fault("rpc_error")
    /\ UNCHANGED <<registerVars, chain, scanVars, notifyVars>>

-----------------------------------------------------------------------------
\* The chain, and the scan of a block.

\* The type an address was answered with.
Answered(b, a) ==
    LET types == {pair[2] : pair \in {p \in exported[b] : p[1] = a}}
    IN  IF types = {} THEN Absent ELSE CHOOSE type \in types : TRUE

Mine(from, to) ==
    /\ Len(chain) < MaxBlocks /\ from # to
    /\ chain' = Append(chain,
            [from |-> from, to |-> to,
             types |-> [b \in Business |-> <<Answered(b, from), Answered(b, to)>>]])
    /\ UNCHANGED <<registerVars, serviceVars, scanVars, notifyVars, faults>>

\* Mutant: the businesses are those known when the process started.
ScanBlockKnown ==
    /\ rest = Absent /\ next <= Len(chain)
    /\ rest' = known
    /\ UNCHANGED <<registerVars, serviceVars, chain, next, seenTo, found, missed, recorded,
                   notifyVars, faults>>

ScanBlock ==
    /\ rest = Absent /\ next <= Len(chain)
    /\ rest' = businesses
    /\ UNCHANGED <<registerVars, serviceVars, chain, next, seenTo, found, missed, recorded,
                   notifyVars, faults>>

\* A missing table, as any error, is taken for a missing row.
AddressExist(b, a) == IF Has(b, "addresses") THEN addresses[b][a] ELSE Absent

\* The lookup of one address, which may fail unnoticed.
LookUp(b, a, type) ==
    \/ type = AddressExist(b, a) /\ UNCHANGED <<missed, faults>>
    \/ type = Absent /\ missed' = missed \union {<<next, b>>} /\ Fault("lookup_error")

LookUpTo(b) ==
    /\ rest # Absent /\ seenTo = Absent
    /\ b \in rest
    /\ \E type \in AddressType \union {Absent} :
           /\ LookUp(b, chain[next].to, type)
           /\ seenTo' = [business |-> b, type |-> type]
    /\ UNCHANGED <<registerVars, serviceVars, chain, next, rest, found, recorded, notifyVars>>

\* What a transfer is from the types of its sender and receiver.
Classify(from, to) ==
    CASE from = Absent /\ to = "user" -> "deposit"
      [] from = "hot" /\ to = Absent -> "withdraw"
      [] from = "user" /\ to = "hot" -> "collection"
      [] from = "hot" /\ to = "cold" -> "hot2cold"
      [] from = "cold" /\ to = "hot" -> "cold2hot"
      [] OTHER -> Absent

LookUpFrom(b) ==
    /\ rest # Absent /\ seenTo # Absent /\ seenTo.business = b
    /\ \E from \in AddressType \union {Absent} :
           /\ LookUp(b, chain[next].from, from)
           /\ LET type == Classify(from, seenTo.type)
              IN  found' = IF type = Absent THEN found
                           ELSE found \union {[block |-> next, business |-> b, type |-> type]}
    /\ rest' = rest \ {b} /\ seenTo' = Absent
    /\ UNCHANGED <<registerVars, serviceVars, chain, next, recorded, notifyVars>>

Forget == rest' = Absent /\ seenTo' = Absent /\ found' = {}
ForgetMissed == missed' = {spot \in missed : spot[1] # next}

\* The Finder writes to tables that have to be there.
IsServed(row) ==
    {"deposits", "withdraws", "internals", "transactions"} \subseteq tables[row.business]

RecordBatch ==
    /\ rest = {} /\ \A row \in found : IsServed(row)
    /\ recorded' = recorded \union found
    /\ next' = next + 1
    /\ Forget
    /\ UNCHANGED <<registerVars, serviceVars, chain, missed, notifyVars, faults>>

\* processBatch fails and starts over with the same headers.
ScanFails ==
    /\ rest # Absent
    /\ Fault("scan_error")
    /\ Forget /\ ForgetMissed
    /\ UNCHANGED <<registerVars, serviceVars, chain, next, recorded, notifyVars>>

-----------------------------------------------------------------------------
\* The Notifier.  A business whose tables are missing has nothing to report.

DepositsOf(b) ==
    {row \in recorded \ notified : row.business = b /\ row.type = "deposit"}

\* Mutant: an error of one business ends the loop.
NotifyBreaks(b) ==
    /\ b \in known /\ DepositsOf(b) # {}
    /\ \A other \in known : Has(other, "deposits")
    /\ notified' = notified \union DepositsOf(b)
    /\ UNCHANGED <<registerVars, serviceVars, chain, scanVars, known, faults>>

Notify(b) ==
    /\ b \in known /\ DepositsOf(b) # {}
    /\ notified' = notified \union DepositsOf(b)
    /\ UNCHANGED <<registerVars, serviceVars, chain, scanVars, known, faults>>

\* The process dies and starts again, with the handlers it was in; the Notifier
\* is constructed anew.
Restart ==
    /\ Fault("crash")
    /\ creating' = {} /\ Forget /\ ForgetMissed
    /\ known' = businesses
    /\ UNCHANGED <<businesses, tables, welcomed, serviceVars, chain, next, recorded, notified>>

Register == \E b \in Business : BusinessRegister(b) \/ CreateTables(b)
Service == \E b \in Business, batch \in Batches : ExportAddress(b, batch)
Scan == ScanBlock \/ RecordBatch \/ \E b \in Business : LookUpTo(b) \/ LookUpFrom(b)

Next ==
    \/ Register \/ Service
    \/ \E from, to \in Address : Mine(from, to)
    \/ Scan \/ ScanFails
    \/ \E b \in Business : Notify(b)
    \/ Restart

Spec == Init /\ [][Next]_vars

\* The synchronizer's loop goes on, and the Notifier's visits every business.
FairSpec == Spec /\ WF_vars(Scan) /\ \A b \in Business : WF_vars(Notify(b))

-----------------------------------------------------------------------------
\* Type correctness.
IsFinding(row) ==
    row.block \in 1..Len(chain) /\ row.business \in businesses /\ row.type # Absent

TypeOK ==
    /\ creating \subseteq businesses /\ businesses \subseteq Business
    /\ \A b \in Business : tables[b] \in {{}, Template}
    /\ addresses \in [Business -> [Address -> AddressType \union {Absent}]]
    /\ \A b \in Business : tables[b] = {} => \A a \in Address : addresses[b][a] = Absent
    /\ next \in 1..(Len(chain) + 1)
    /\ rest # Absent => rest \subseteq businesses /\ next <= Len(chain)
    /\ \A row \in found \union recorded : IsFinding(row)
    /\ notified \subseteq recorded /\ known \subseteq businesses

\* The Finder is never handed a transfer of a business whose tables it misses,
\* however registrations fail on the way or are still under way.
BatchIsServed == \A row \in found : IsServed(row)

\* An address was answered with one type, and stands in the table with it,
\* though requests for the same key overlap or are repeated after an error.
AnsweredIsStored ==
    \A b \in Business : \A pair \in exported[b] : addresses[b][pair[1]] = pair[2]

\* Of its addresses, b had been answered by then all it has in its table.
SettledThen(n, b) ==
    chain[n].types[b] = <<addresses[b][chain[n].from], addresses[b][chain[n].to]>>

\* A scanned transfer is recorded as what it was when it was mined, whatever is
\* registered and exported while the block is scanned, for every business whose
\* own lookups have not failed.
ClassifiedAsMined ==
    \A n \in 1..(next - 1), b \in Business :
        SettledThen(n, b) /\ <<n, b>> \notin missed =>
            {row.type : row \in {r \in recorded : r.block = n /\ r.business = b}}
                = {Classify(chain[n].types[b][1], chain[n].types[b][2])} \ {Absent}

\* A deposit of a business the Notifier knows is reported, also next to a
\* business whose registration was left half done.
KnownIsNotified ==
    \A n \in 1..MaxBlocks, b \in Business :
        LET row == [block |-> n, business |-> b, type |-> "deposit"]
        IN  row \in recorded /\ b \in known ~> row \in notified

\* A business that was answered success has its tables.
SuccessHasTables ==
    \A b \in welcomed : tables[b] = Template

=============================================================================

------------------------- MODULE Registration_proofs -------------------------
(***************************************************************************)
(* Proofs about registration, the export of addresses and the scan, for    *)
(* any number of businesses, addresses, blocks and failures.               *)
(***************************************************************************)
EXTENDS Registration, TLAPS

ListedType == AddressType \union {Absent}

\* The tables of a business that are there, and what they hold.
Tables ==
    /\ businesses \subseteq Business /\ creating \subseteq businesses
    /\ tables \in [Business -> {{}, Template}]
    /\ addresses \in [Business -> [Address -> ListedType]]
    /\ exported \in [Business -> SUBSET (Address \X AddressType)]
    /\ \A b \in Business : tables[b] # {} => b \in businesses
    /\ \A b \in Business : tables[b] = {} => \A a \in Address : addresses[b][a] = Absent

\* Tables stay, and an address keeps the type it is stored with.
Growth ==
    /\ businesses \subseteq businesses'
    /\ \A b \in Business : tables[b] = Template => tables'[b] = Template
    /\ \A b \in Business, a \in Address :
           addresses[b][a] # Absent => addresses'[b][a] = addresses[b][a]

\* The scan works through the businesses of its block; what it has found is of
\* that block and of those it has looked at.
Scanning ==
    /\ rest # Absent => rest \subseteq businesses
    /\ rest = Absent => found = {}
    /\ seenTo # Absent =>
           rest # Absent /\ seenTo.business \in rest /\ seenTo.type \in ListedType
    /\ \A row \in found : row.business \in Business /\ row.business \notin rest

\* A type other than Absent was read from a table that is there.
ReadFromTable ==
    /\ seenTo # Absent /\ seenTo.type # Absent => tables[seenTo.business] = Template
    /\ \A row \in found : tables[row.business] = Template

Block == [from : Address, to : Address, types : [Business -> ListedType \X ListedType]]

\* What a business had been answered when a block was mined is in its table.
Mined ==
    /\ chain \in Seq(Block) /\ next \in 1..(Len(chain) + 1)
    /\ rest # Absent => next <= Len(chain)
    /\ \A n \in 1..Len(chain), b \in Business :
           /\ chain[n].types[b][1] \in {Absent, addresses[b][chain[n].from]}
           /\ chain[n].types[b][2] \in {Absent, addresses[b][chain[n].to]}

\* A type read for an address of block n: what the business had been answered by
\* then, or, if that was nothing, what it may have been answered since.
IsRead(n, b, a, then, type) ==
    /\ type \in {Absent, addresses[b][a]}
    /\ then # Absent => type = then

TypesIn(set, n, b) == {row.type : row \in {r \in set : r.block = n /\ r.business = b}}

\* The rows of a block are of the type two such reads amount to.
IsClassified(set, n, b) ==
    \E from, to \in ListedType :
        /\ IsRead(n, b, chain[n].from, chain[n].types[b][1], from)
        /\ IsRead(n, b, chain[n].to, chain[n].types[b][2], to)
        /\ TypesIn(set, n, b) = {Classify(from, to)} \ {Absent}

\* So is every block scanned, and every business the scan has looked at, unless
\* one of its lookups was missed.
Classified ==
    /\ \A row \in found : row.block = next
    /\ \A row \in recorded : row.block \in 1..(next - 1)
    /\ seenTo # Absent =>
           \/ <<next, seenTo.business>> \in missed
           \/ IsRead(next, seenTo.business, chain[next].to,
                     chain[next].types[seenTo.business][2], seenTo.type)
    /\ rest # Absent =>
           \A b \in Business \ rest : <<next, b>> \in missed \/ IsClassified(found, next, b)
    /\ \A n \in 1..(next - 1), b \in Business :
           <<n, b>> \in missed \/ IsClassified(recorded, n, b)

ScanInv == Mined /\ Scanning /\ ReadFromTable /\ Classified

IInv == Tables /\ AnsweredIsStored /\ ScanInv

USE RegistrationAssumption

-----------------------------------------------------------------------------
\* What every step leaves standing.

LEMMA InitHolds == Init => IInv
  BY DEF Init, IInv, Tables, AnsweredIsStored, ScanInv, Mined, Scanning, ReadFromTable,
         Classified, ListedType

\* The step of an export.
LEMMA ExportKept ==
    ASSUME Tables, AnsweredIsStored, NEW b \in Business, NEW batch \in Batches,
           ExportAddress(b, batch)
    PROVE  Tables' /\ AnsweredIsStored' /\ Growth
<1>1. DOMAIN batch \subseteq Address /\ \A a \in DOMAIN batch : batch[a] \in AddressType
  BY DEF Tables
<1>2. UNCHANGED <<businesses, creating, tables>>
  BY DEF ExportAddress, registerVars
<1>3. CASE /\ StoreAddresses(b, batch)
           /\ \/ UNCHANGED exported
              \/ exported' = [exported EXCEPT ![b] =
                                  @ \union {<<a, batch[a]>> : a \in DOMAIN batch}]
  <2>1. /\ tables[b] # {}
        /\ \A a \in DOMAIN batch : addresses[b][a] = Absent
        /\ addresses' = [addresses EXCEPT ![b] =
               [a \in Address |-> IF a \in DOMAIN batch THEN batch[a] ELSE @[a]]]
    BY <1>3 DEF StoreAddresses, Has
  <2>2. addresses' \in [Business -> [Address -> ListedType]]
    BY <2>1, <1>1 DEF Tables, ListedType
  <2>3. exported' \in [Business -> SUBSET (Address \X AddressType)]
    <3>1. {<<a, batch[a]>> : a \in DOMAIN batch} \subseteq Address \X AddressType
      BY <1>1
    <3> QED BY <3>1, <1>3 DEF Tables
  <2>4. \A c \in Business : tables[c] = {} => \A a \in Address : addresses'[c][a] = Absent
    BY <2>1 DEF Tables
  <2>5. Growth
    BY <1>2, <2>1 DEF Growth, Tables
  <2>6. \A c \in Business : \A pair \in exported'[c] : addresses'[c][pair[1]] = pair[2]
    <3> SUFFICES ASSUME NEW c \in Business, NEW pair \in exported'[c]
                 PROVE  addresses'[c][pair[1]] = pair[2]
      OBVIOUS
    <3>1. CASE pair \in exported[c]
      <4>1. pair[1] \in Address /\ pair[2] \in AddressType /\ addresses[c][pair[1]] = pair[2]
        BY <3>1 DEF Tables, AnsweredIsStored
      <4> QED BY <4>1, <2>5 DEF Growth
    <3>2. CASE pair \notin exported[c]
      <4>1. c = b /\ \E a \in DOMAIN batch : pair = <<a, batch[a]>>
        BY <3>2, <1>3 DEF Tables
      <4> QED BY <4>1, <2>1, <1>1 DEF Tables
    <3> QED BY <3>1, <3>2
  <2> QED BY <1>2, <2>2, <2>3, <2>4, <2>5, <2>6 DEF Tables, AnsweredIsStored
<1>4. CASE /\ \E a \in DOMAIN batch : StoreAddresses(b, [z \in {Zero} |-> batch[a]])
           /\ UNCHANGED exported
  <2> PICK a \in DOMAIN batch : StoreAddresses(b, [z \in {Zero} |-> batch[a]])
    BY <1>4
  <2> DEFINE one == [z \in {Zero} |-> batch[a]]
  <2>1. DOMAIN one = {Zero} /\ one[Zero] = batch[a] /\ batch[a] \in AddressType
    BY <1>1
  <2>2. /\ tables[b] # {}
        /\ addresses[b][Zero] = Absent
        /\ addresses' = [addresses EXCEPT ![b] =
               [c \in Address |-> IF c \in DOMAIN one THEN one[c] ELSE @[c]]]
    BY <2>1 DEF StoreAddresses, Has
  <2> HIDE DEF one
  <2>3. addresses' \in [Business -> [Address -> ListedType]]
    BY <2>1, <2>2 DEF Tables, ListedType
  <2>4. \A c \in Business : tables[c] = {} => \A d \in Address : addresses'[c][d] = Absent
    BY <2>2 DEF Tables
  <2>5. Growth
    BY <1>2, <2>1, <2>2 DEF Growth, Tables
  <2>6. \A c \in Business : \A pair \in exported[c] : addresses'[c][pair[1]] = pair[2]
    <3> SUFFICES ASSUME NEW c \in Business, NEW pair \in exported[c]
                 PROVE  addresses'[c][pair[1]] = pair[2]
      OBVIOUS
    <3>1. pair[1] \in Address /\ pair[2] \in AddressType /\ addresses[c][pair[1]] = pair[2]
      BY DEF Tables, AnsweredIsStored
    <3> QED BY <3>1, <2>5 DEF Growth
  <2>7. exported' = exported
    BY <1>4
  <2> QED BY <1>2, <2>3, <2>4, <2>5, <2>6, <2>7 DEF Tables, AnsweredIsStored
<1> QED BY <1>3, <1>4 DEF ExportAddress

\* Every other step leaves addresses and answers alone.
LEMMA TablesKept ==
    ASSUME Tables, AnsweredIsStored, [Next]_vars
    PROVE  Tables' /\ AnsweredIsStored' /\ Growth
<1>1. CASE UNCHANGED <<addresses, exported, tables, businesses, creating>>
  BY <1>1 DEF Tables, AnsweredIsStored, Growth
<1>2. ASSUME NEW b \in Business, BusinessRegister(b)
      PROVE  Tables' /\ AnsweredIsStored' /\ Growth
  BY <1>2 DEF BusinessRegister, serviceVars, Tables, AnsweredIsStored, Growth
<1>3. ASSUME NEW b \in Business, CreateTables(b)
      PROVE  Tables' /\ AnsweredIsStored' /\ Growth
  <2>1. /\ b \in businesses /\ tables' \in [Business -> {{}, Template}]
        /\ \A c \in Business : c # b => tables'[c] = tables[c]
        /\ tables' = [tables EXCEPT ![b] = Template] \/ tables' = tables
    BY <1>3 DEF CreateTables, Tables
  <2>2. UNCHANGED <<businesses, addresses, exported>> /\ creating' = creating \ {b}
    BY <1>3 DEF CreateTables, serviceVars
  <2> QED BY <2>1, <2>2 DEF Tables, AnsweredIsStored, Growth, Template
<1>4. ASSUME NEW b \in Business, NEW batch \in Batches, ExportAddress(b, batch)
      PROVE  Tables' /\ AnsweredIsStored' /\ Growth
  BY <1>4, ExportKept
<1>5. CASE Restart
  BY <1>5 DEF Restart, serviceVars, Tables, AnsweredIsStored, Growth
<1>6. ASSUME NEW b \in Business, LookUpTo(b) \/ LookUpFrom(b) \/ Notify(b)
      PROVE  UNCHANGED <<addresses, exported, tables, businesses, creating>>
  BY <1>6 DEF LookUpTo, LookUpFrom, Notify, registerVars, serviceVars
<1>7. ASSUME ScanBlock \/ RecordBatch \/ ScanFails \/ UNCHANGED vars
             \/ \E from, to \in Address : Mine(from, to)
      PROVE  UNCHANGED <<addresses, exported, tables, businesses, creating>>
  BY <1>7 DEF ScanBlock, RecordBatch, ScanFails, Mine, vars, registerVars, serviceVars
<1> QED BY <1>1, <1>2, <1>3, <1>4, <1>5, <1>6, <1>7 DEF Next, Register, Service, Scan

-----------------------------------------------------------------------------
\* The lookups of a scan.

LEMMA NothingFound == Classify(Absent, Absent) = Absent
  BY DEF Classify, AddressType

LEMMA LookedUp ==
    ASSUME Tables, NEW b \in Business, NEW a \in Address, NEW type, LookUp(b, a, type)
    PROVE  /\ type \in ListedType
           /\ type # Absent => tables[b] = Template
           /\ type \in {Absent, addresses[b][a]}
           /\ type = addresses[b][a] \/ <<next, b>> \in missed'
           /\ missed \subseteq missed'
  BY DEF LookUp, AddressExist, Has, Tables, Template, ListedType

LEMMA ReadKept ==
    ASSUME Tables, Growth, NEW n, NEW b \in Business, NEW a \in Address, NEW then, NEW type,
           IsRead(n, b, a, then, type)
    PROVE  IsRead(n, b, a, then, type)'
  BY DEF IsRead, Growth

\* A classification stands when tables grow and blocks are mined.
LEMMA ClassifiedKept ==
    ASSUME Tables, Growth, chain \in Seq(Block), NEW set, NEW n, NEW b \in Business,
           n \in 1..Len(chain), chain'[n] = chain[n],
           IsClassified(set, n, b)
    PROVE  \E from, to \in ListedType :
               /\ IsRead(n, b, chain[n].from, chain[n].types[b][1], from)'
               /\ IsRead(n, b, chain[n].to, chain[n].types[b][2], to)'
               /\ TypesIn(set, n, b) = {Classify(from, to)} \ {Absent}
<1>1. PICK from, to \in ListedType :
          /\ IsRead(n, b, chain[n].from, chain[n].types[b][1], from)
          /\ IsRead(n, b, chain[n].to, chain[n].types[b][2], to)
          /\ TypesIn(set, n, b) = {Classify(from, to)} \ {Absent}
  BY DEF IsClassified
<1>2. chain[n].from \in Address /\ chain[n].to \in Address
  <2>1. chain[n] \in Block
    OBVIOUS
  <2> QED BY <2>1 DEF Block
<1>3. IsRead(n, b, chain[n].from, chain[n].types[b][1], from)'
  BY <1>1, <1>2, ReadKept DEF IsRead, Growth
<1>4. IsRead(n, b, chain[n].to, chain[n].types[b][2], to)'
  BY <1>1, <1>2, ReadKept DEF IsRead, Growth
<1> QED BY <1>1, <1>3, <1>4

\* What has been answered for an address is in the table.
LEMMA AnsweredStored ==
    ASSUME Tables, AnsweredIsStored, NEW b \in Business, NEW a \in Address
    PROVE  Answered(b, a) \in ListedType /\ Answered(b, a) \in {Absent, addresses[b][a]}
<1> DEFINE types == {pair[2] : pair \in {p \in exported[b] : p[1] = a}}
<1>1. types \subseteq AddressType /\ \A type \in types : type = addresses[b][a]
  BY DEF Tables, AnsweredIsStored
<1> QED BY <1>1 DEF Answered, ListedType

LEMMA MinedKept ==
    ASSUME IInv, Tables', Growth, [Next]_vars
    PROVE  Mined'
<1> USE DEF IInv, ScanInv
<1>0. \A n \in 1..Len(chain) : chain[n].from \in Address /\ chain[n].to \in Address
  <2>1. \A n \in 1..Len(chain) : chain[n] \in Block
    BY DEF Mined
  <2> QED BY <2>1 DEF Block
<1>1. ASSUME UNCHANGED chain, next' \in 1..(Len(chain) + 1),
             rest' # Absent => next' <= Len(chain)
      PROVE  Mined'
  BY <1>0, <1>1 DEF Mined, Growth
<1>2. ASSUME NEW from \in Address, NEW to \in Address, Mine(from, to)
      PROVE  Mined'
  <2> DEFINE block == [from |-> from, to |-> to,
                 types |-> [b \in Business |-> <<Answered(b, from), Answered(b, to)>>]]
  <2>1. chain' = Append(chain, block) /\ UNCHANGED <<addresses, next, rest>>
    BY <1>2 DEF Mine, serviceVars, scanVars
  <2>2. block \in Block
    BY AnsweredStored DEF Block
  <2>3. \A b \in Business : /\ block.types[b][1] \in {Absent, addresses[b][block.from]}
                            /\ block.types[b][2] \in {Absent, addresses[b][block.to]}
    BY AnsweredStored
  <2> HIDE DEF block
  <2>4. /\ chain' \in Seq(Block) /\ Len(chain') = Len(chain) + 1
        /\ \A n \in 1..Len(chain) : chain'[n] = chain[n]
        /\ chain'[Len(chain) + 1] = block
    BY <2>1, <2>2 DEF Mined
  <2>5. ASSUME NEW n \in 1..Len(chain'), NEW b \in Business
        PROVE  /\ chain'[n].types[b][1] \in {Absent, addresses[b][chain'[n].from]}
               /\ chain'[n].types[b][2] \in {Absent, addresses[b][chain'[n].to]}
    <3>1. CASE n \in 1..Len(chain)
      BY <2>4, <3>1 DEF Mined
    <3>2. CASE n = Len(chain) + 1
      BY <2>3, <2>4, <3>2
    <3>3. Len(chain) \in Nat
      BY DEF Mined
    <3> QED BY <2>4, <3>1, <3>2, <3>3
  <2>6. next' \in 1..(Len(chain') + 1) /\ (rest' # Absent => next' <= Len(chain'))
    BY <2>1, <2>4 DEF Mined
  <2> QED BY <2>1, <2>4, <2>5, <2>6 DEF Mined
<1>3. CASE RecordBatch
  <2>1. UNCHANGED chain /\ next' = next + 1 /\ rest' = Absent /\ rest # Absent
    <3>1. {} \in SUBSET Business
      OBVIOUS
    <3> QED BY <1>3, <3>1 DEF RecordBatch, Forget
  <2>2. next \in 1..Len(chain)
    BY <2>1 DEF Mined
  <2> QED BY <1>1, <2>1, <2>2 DEF Mined
<1>4. CASE ScanBlock
  BY <1>1, <1>4 DEF ScanBlock, Mined
<1>5. ASSUME NEW b \in Business, LookUpTo(b) \/ LookUpFrom(b)
      PROVE  Mined'
  BY <1>1, <1>5 DEF LookUpTo, LookUpFrom, Mined
<1>6. CASE ScanFails \/ Restart
  BY <1>1, <1>6 DEF ScanFails, Restart, Forget, Mined
<1>7. ASSUME NEW b \in Business,
             BusinessRegister(b) \/ CreateTables(b) \/ Notify(b)
             \/ \E batch \in Batches : ExportAddress(b, batch)
      PROVE  Mined'
  BY <1>1, <1>7 DEF BusinessRegister, CreateTables, Notify, ExportAddress, scanVars, Mined
<1>8. CASE UNCHANGED vars
  BY <1>1, <1>8 DEF vars, scanVars, Mined
<1> QED BY <1>2, <1>3, <1>4, <1>5, <1>6, <1>7, <1>8 DEF Next, Register, Service, Scan

\* The blocks mined already stay as they are.
Fixed == \A n \in 1..Len(chain) : chain'[n] = chain[n]

LEMMA BlocksFixed ==
    ASSUME IInv, [Next]_vars
    PROVE  Fixed
<1> USE DEF IInv, ScanInv
<1>1. ASSUME NEW from \in Address, NEW to \in Address, Mine(from, to)
      PROVE  Fixed
  <2> DEFINE block == [from |-> from, to |-> to,
                 types |-> [b \in Business |-> <<Answered(b, from), Answered(b, to)>>]]
  <2>1. chain' = Append(chain, block)
    BY <1>1 DEF Mine
  <2> HIDE DEF block
  <2> QED BY <2>1 DEF Fixed, Mined
<1>2. ASSUME NEW b \in Business,
             BusinessRegister(b) \/ CreateTables(b) \/ Notify(b) \/ LookUpTo(b) \/ LookUpFrom(b)
             \/ \E batch \in Batches : ExportAddress(b, batch)
      PROVE  UNCHANGED chain
  BY <1>2 DEF BusinessRegister, CreateTables, Notify, ExportAddress, LookUpTo, LookUpFrom
<1>3. ASSUME ScanBlock \/ RecordBatch \/ ScanFails \/ Restart \/ UNCHANGED vars
      PROVE  UNCHANGED chain
  BY <1>3 DEF ScanBlock, RecordBatch, ScanFails, Restart, vars
<1> QED BY <1>1, <1>2, <1>3 DEF Next, Register, Service, Scan, Fixed

\* What has been recorded stays classified.
LEMMA RecordedKept ==
    ASSUME IInv, Growth, Fixed, UNCHANGED recorded,
           NEW n \in 1..(next - 1), NEW b \in Business, <<n, b>> \in missed => <<n, b>> \in missed'
    PROVE  <<n, b>> \in missed' \/ IsClassified(recorded, n, b)'
<1>1. n \in 1..Len(chain) /\ chain \in Seq(Block) /\ chain'[n] = chain[n]
  BY DEF IInv, ScanInv, Mined, Fixed
<1>2. CASE IsClassified(recorded, n, b)
  <2>1. \E from, to \in ListedType :
            /\ IsRead(n, b, chain[n].from, chain[n].types[b][1], from)'
            /\ IsRead(n, b, chain[n].to, chain[n].types[b][2], to)'
            /\ TypesIn(recorded, n, b) = {Classify(from, to)} \ {Absent}
    BY <1>1, <1>2, ClassifiedKept DEF IInv
  <2> QED BY <2>1 DEF IsClassified, TypesIn
<1> QED BY <1>2 DEF IInv, ScanInv, Classified

\* And so does what the scan has found in its block.
LEMMA FoundKept ==
    ASSUME IInv, Growth, Fixed, UNCHANGED next, rest # Absent,
           NEW b \in Business, TypesIn(found', next, b) = TypesIn(found, next, b),
           IsClassified(found, next, b)
    PROVE  IsClassified(found, next, b)'
<1>1. next \in 1..Len(chain) /\ chain \in Seq(Block) /\ chain'[next] = chain[next]
  BY DEF IInv, ScanInv, Mined, Fixed
<1>2. \E from, to \in ListedType :
          /\ IsRead(next, b, chain[next].from, chain[next].types[b][1], from)'
          /\ IsRead(next, b, chain[next].to, chain[next].types[b][2], to)'
          /\ TypesIn(found, next, b) = {Classify(from, to)} \ {Absent}
  BY <1>1, ClassifiedKept DEF IInv
<1> QED BY <1>2 DEF IsClassified, TypesIn

ScanGoal == Scanning' /\ ReadFromTable' /\ Classified'

\* Steps beside the scan.
LEMMA BesideScan ==
    ASSUME IInv, Growth, Fixed, UNCHANGED scanVars
    PROVE  ScanGoal
<1> USE DEF IInv, ScanInv, scanVars
<1>1. Scanning'
  BY DEF Scanning, Growth
<1>2. ReadFromTable'
  BY DEF ReadFromTable, Growth, Scanning, Tables
<1>3. ASSUME NEW n \in 1..(next - 1), NEW b \in Business
      PROVE  <<n, b>> \in missed' \/ IsClassified(recorded, n, b)'
  BY <1>3, RecordedKept
<1>4. ASSUME rest # Absent, NEW b \in Business \ rest, <<next, b>> \notin missed
      PROVE  IsClassified(found, next, b)'
  BY <1>4, FoundKept DEF Classified
<1>5. ASSUME seenTo # Absent, <<next, seenTo.business>> \notin missed
      PROVE  IsRead(next, seenTo.business, chain[next].to,
                    chain[next].types[seenTo.business][2], seenTo.type)'
  <2>1. /\ next \in 1..Len(chain) /\ chain \in Seq(Block) /\ chain'[next] = chain[next]
        /\ seenTo.business \in Business
    BY <1>5 DEF Scanning, Tables, Mined, Fixed
  <2>2. chain[next] \in Block
    BY <2>1
  <2>3. chain[next].to \in Address
    BY <2>2 DEF Block
  <2> QED BY <1>5, <2>1, <2>3 DEF Classified, IsRead, Growth
<1>6. (\A row \in found : row.block = next)' /\ (\A row \in recorded : row.block \in 1..(next - 1))'
  BY DEF Classified
<1> QED BY <1>1, <1>2, <1>3, <1>4, <1>5, <1>6 DEF ScanGoal, Classified

\* The scan is given up, or has not begun.
LEMMA Forgotten ==
    ASSUME IInv, Growth, Fixed, Forget, ForgetMissed, UNCHANGED <<next, recorded>>
    PROVE  ScanGoal
<1> USE DEF IInv, ScanInv, Forget
<1>1. ASSUME NEW n \in 1..(next - 1), NEW b \in Business
      PROVE  <<n, b>> \in missed' \/ IsClassified(recorded, n, b)'
  <2>1. <<n, b>> \in missed => <<n, b>> \in missed'
    BY <1>1 DEF ForgetMissed, Mined
  <2> QED BY <2>1, RecordedKept
<1>2. \A row \in recorded' : row.block \in 1..(next' - 1)
  BY DEF Classified
<1> QED BY <1>1, <1>2 DEF ScanGoal, Scanning, ReadFromTable, Classified

LEMMA BlockTaken ==
    ASSUME IInv, Growth, Fixed, ScanBlock
    PROVE  ScanGoal
<1> USE DEF IInv, ScanInv
<1>1. /\ next \in 1..Len(chain) /\ rest = Absent /\ rest' = businesses /\ found = {}
      /\ seenTo = Absent
      /\ UNCHANGED <<businesses, addresses, chain, next, seenTo, found, missed, recorded>>
  BY DEF ScanBlock, Scanning, Mined, registerVars, serviceVars
<1>2. ASSUME NEW n \in 1..(next - 1), NEW b \in Business
      PROVE  <<n, b>> \in missed' \/ IsClassified(recorded, n, b)'
  BY <1>1, <1>2, RecordedKept
<1>3. ASSUME NEW b \in Business \ businesses
      PROVE  IsClassified(found, next, b)'
  <2>1. \A a \in Address : addresses[b][a] = Absent
    BY <1>3 DEF Tables
  <2>2. chain[next] \in Block
    BY <1>1 DEF Mined
  <2>3. chain[next].from \in Address /\ chain[next].to \in Address
    BY <2>2 DEF Block
  <2>4. chain[next].types[b][1] = Absent /\ chain[next].types[b][2] = Absent
    BY <1>1, <2>1, <2>3 DEF Mined
  <2>5. TypesIn(found, next, b) = {} /\ {Classify(Absent, Absent)} \ {Absent} = {}
    BY <1>1, NothingFound DEF TypesIn
  <2>6. /\ IsRead(next, b, chain[next].from, chain[next].types[b][1], Absent)
        /\ IsRead(next, b, chain[next].to, chain[next].types[b][2], Absent)
    BY <2>4 DEF IsRead
  <2>7. IsClassified(found, next, b)
    BY <2>5, <2>6 DEF IsClassified, ListedType
  <2> QED BY <1>1, <2>7 DEF IsClassified, IsRead, TypesIn
<1>4. Scanning' /\ ReadFromTable'
  BY <1>1 DEF Scanning, ReadFromTable, Tables
<1> QED BY <1>1, <1>2, <1>3, <1>4 DEF ScanGoal, Classified

LEMMA ReceiverRead ==
    ASSUME IInv, Growth, Fixed, NEW b \in Business, LookUpTo(b)
    PROVE  ScanGoal
<1> USE DEF IInv, ScanInv
<1>1. PICK type \in ListedType :
          /\ LookUp(b, chain[next].to, type)
          /\ seenTo' = [business |-> b, type |-> type]
  BY DEF LookUpTo, ListedType
<1>2. /\ rest # Absent /\ b \in rest /\ next \in 1..Len(chain) /\ chain[next] \in Block
      /\ UNCHANGED <<businesses, tables, addresses, chain, next, rest, found, recorded>>
  BY DEF LookUpTo, Mined, registerVars, serviceVars
<1>3. chain[next].to \in Address
  BY <1>2 DEF Block
<1>4. /\ type # Absent => tables[b] = Template
      /\ type \in {Absent, addresses[b][chain[next].to]}
      /\ type = addresses[b][chain[next].to] \/ <<next, b>> \in missed'
      /\ missed \subseteq missed'
  BY <1>1, <1>3, LookedUp
<1>5. ASSUME NEW n \in 1..(next - 1), NEW c \in Business
      PROVE  <<n, c>> \in missed' \/ IsClassified(recorded, n, c)'
  BY <1>2, <1>4, <1>5, RecordedKept
<1>6. ASSUME NEW c \in Business \ rest, <<next, c>> \notin missed'
      PROVE  IsClassified(found, next, c)'
  BY <1>2, <1>4, <1>6, FoundKept DEF Classified
<1>7. \/ <<next, b>> \in missed'
      \/ IsRead(next, b, chain[next].to, chain[next].types[b][2], type)'
  BY <1>2, <1>4 DEF IsRead, Mined
<1>8. Scanning' /\ ReadFromTable'
  BY <1>1, <1>2, <1>4 DEF Scanning, ReadFromTable
<1>9. (\A row \in found : row.block = next)' /\ (\A row \in recorded : row.block \in 1..(next - 1))'
  BY <1>2 DEF Classified
<1> QED BY <1>1, <1>2, <1>5, <1>6, <1>7, <1>8, <1>9 DEF ScanGoal, Classified

LEMMA SenderRead ==
    ASSUME IInv, Growth, Fixed, NEW b \in Business, LookUpFrom(b)
    PROVE  ScanGoal
<1> USE DEF IInv, ScanInv
<1>1. PICK from \in ListedType :
          /\ LookUp(b, chain[next].from, from)
          /\ LET type == Classify(from, seenTo.type)
             IN  found' = IF type = Absent THEN found
                          ELSE found \union {[block |-> next, business |-> b, type |-> type]}
  BY DEF LookUpFrom, ListedType
<1> PICK type : type = Classify(from, seenTo.type)
  OBVIOUS
<1> DEFINE row == [block |-> next, business |-> b, type |-> type]
<1>2. /\ seenTo # Absent /\ seenTo.business = b /\ rest' = rest \ {b} /\ seenTo' = Absent
      /\ UNCHANGED <<businesses, tables, addresses, chain, next, recorded>>
  BY DEF LookUpFrom, registerVars, serviceVars
<1>3. /\ rest # Absent /\ rest \subseteq Business /\ rest' # Absent /\ b \in rest
      /\ seenTo.type \in ListedType /\ next \in 1..Len(chain) /\ chain[next] \in Block
  <2>1. rest # Absent /\ rest \subseteq Business
    BY <1>2 DEF Scanning, Tables
  <2>2. rest' \in SUBSET Business
    BY <2>1, <1>2
  <2> QED BY <1>2, <2>1, <2>2 DEF Scanning, Mined
<1>4. chain[next].from \in Address
  BY <1>3 DEF Block
<1>5. /\ from # Absent => tables[b] = Template
      /\ from \in {Absent, addresses[b][chain[next].from]}
      /\ from = addresses[b][chain[next].from] \/ <<next, b>> \in missed'
      /\ missed \subseteq missed'
  BY <1>1, <1>4, LookedUp
<1>6. found' = IF type = Absent THEN found ELSE found \union {row}
  BY <1>1
<1>7. type # Absent => tables[b] = Template
  <2>1. type # Absent => from # Absent \/ seenTo.type # Absent
    BY NothingFound
  <2> QED BY <1>2, <1>5, <2>1 DEF ReadFromTable
<1>8. ASSUME NEW n \in 1..(next - 1), NEW c \in Business
      PROVE  <<n, c>> \in missed' \/ IsClassified(recorded, n, c)'
  BY <1>2, <1>5, <1>8, RecordedKept
<1>9. ASSUME NEW c \in Business \ rest, <<next, c>> \notin missed'
      PROVE  IsClassified(found, next, c)'
  <2>1. TypesIn(found', next, c) = TypesIn(found, next, c)
    BY <1>3, <1>6, <1>9 DEF TypesIn
  <2> QED BY <1>2, <1>3, <1>5, <1>9, <2>1, FoundKept DEF Classified
<1>10. ASSUME <<next, b>> \notin missed'
       PROVE  IsClassified(found, next, b)'
  <2>1. {r \in found : r.block = next /\ r.business = b} = {}
    BY <1>3 DEF Scanning
  <2>2. TypesIn(found', next, b) = {type} \ {Absent}
    <3>1. CASE type = Absent
      BY <3>1, <1>6, <2>1 DEF TypesIn
    <3>2. CASE type # Absent
      <4>1. {r \in found' : r.block = next /\ r.business = b} = {row}
        BY <3>2, <1>6, <2>1
      <4>2. {r.type : r \in {row}} = {type} /\ {type} \ {Absent} = {type}
        BY <3>2
      <4> QED BY <4>1, <4>2 DEF TypesIn
    <3> QED BY <3>1, <3>2
  <2>3. IsRead(next, b, chain[next].to, chain[next].types[b][2], seenTo.type)
    BY <1>2, <1>5, <1>10 DEF Classified
  <2>4. IsRead(next, b, chain[next].from, chain[next].types[b][1], from)
    BY <1>3, <1>5, <1>10 DEF IsRead, Mined
  <2> QED BY <1>2, <1>3, <2>2, <2>3, <2>4 DEF IsClassified, IsRead, TypesIn
<1>11. Scanning' /\ ReadFromTable'
  <2> row.business = b
    OBVIOUS
  <2> HIDE DEF row
  <2>1. \A r \in found' : r \in found \/ (r = row /\ type # Absent)
    BY <1>6
  <2>2. \A r \in found' : /\ r.business \in Business /\ r.business \notin rest'
                          /\ tables'[r.business] = Template
    BY <1>2, <1>7, <2>1 DEF Scanning, ReadFromTable
  <2> QED BY <1>2, <1>3, <2>2 DEF Scanning, ReadFromTable
<1>12. (\A r \in found : r.block = next)' /\ (\A r \in recorded : r.block \in 1..(next - 1))'
  BY <1>2, <1>6 DEF Classified
<1> QED BY <1>2, <1>3, <1>8, <1>9, <1>10, <1>11, <1>12 DEF ScanGoal, Classified

LEMMA BatchRecorded ==
    ASSUME IInv, Growth, Fixed, RecordBatch
    PROVE  ScanGoal
<1> USE DEF IInv, ScanInv
<1>1. /\ rest = {} /\ rest # Absent /\ next \in 1..Len(chain)
      /\ recorded' = recorded \union found /\ next' = next + 1
      /\ rest' = Absent /\ seenTo' = Absent /\ found' = {}
      /\ UNCHANGED <<addresses, chain, missed>>
  <2>1. rest = {} /\ {} \in SUBSET Business
    BY DEF RecordBatch
  <2> QED BY <2>1 DEF RecordBatch, Forget, Mined, serviceVars
<1>2. ASSUME NEW n \in 1..next, NEW b \in Business, <<n, b>> \notin missed
      PROVE  IsClassified(recorded, n, b)'
  <2>1. CASE n = next
    <3>1. IsClassified(found, n, b)
      BY <1>1, <1>2, <2>1 DEF Classified
    <3>2. {r \in recorded' : r.block = n /\ r.business = b}
              = {r \in found : r.block = n /\ r.business = b}
      BY <1>1, <2>1 DEF Classified
    <3> QED BY <1>1, <3>1, <3>2 DEF IsClassified, IsRead, TypesIn
  <2>2. CASE n # next
    <3>1. IsClassified(recorded, n, b) /\ n \in 1..(next - 1)
      BY <1>1, <1>2, <2>2 DEF Classified
    <3>2. {r \in recorded' : r.block = n /\ r.business = b}
              = {r \in recorded : r.block = n /\ r.business = b}
      BY <1>1, <2>2 DEF Classified
    <3> QED BY <1>1, <3>1, <3>2 DEF IsClassified, IsRead, TypesIn
  <2> QED BY <2>1, <2>2
<1>3. \A row \in recorded' : row.block \in 1..next
  BY <1>1 DEF Classified
<1>4. next' - 1 = next
  BY <1>1
<1> QED BY <1>1, <1>2, <1>3, <1>4 DEF ScanGoal, Scanning, ReadFromTable, Classified

-----------------------------------------------------------------------------
\* The invariant.

LEMMA StepHolds == IInv /\ [Next]_vars => IInv'
<1> SUFFICES ASSUME IInv, [Next]_vars PROVE IInv'
  OBVIOUS
<1>1. Tables' /\ AnsweredIsStored' /\ Growth
  BY TablesKept DEF IInv
<1>2. Mined' /\ Fixed
  BY <1>1, MinedKept, BlocksFixed
<1>3. ScanGoal
  <2>1. ASSUME NEW b \in Business,
               BusinessRegister(b) \/ CreateTables(b) \/ Notify(b)
               \/ \E batch \in Batches : ExportAddress(b, batch)
        PROVE  ScanGoal
    <3>1. UNCHANGED scanVars
      BY <2>1 DEF BusinessRegister, CreateTables, Notify, ExportAddress
    <3> QED BY <1>1, <1>2, <3>1, BesideScan
  <2>2. CASE UNCHANGED vars \/ \E from, to \in Address : Mine(from, to)
    <3>1. UNCHANGED scanVars
      BY <2>2 DEF Mine, vars
    <3> QED BY <1>1, <1>2, <3>1, BesideScan
  <2>3. CASE ScanBlock
    BY <1>1, <1>2, <2>3, BlockTaken
  <2>4. CASE RecordBatch
    BY <1>1, <1>2, <2>4, BatchRecorded
  <2>5. ASSUME NEW b \in Business, LookUpTo(b) \/ LookUpFrom(b)
        PROVE  ScanGoal
    BY <1>1, <1>2, <2>5, ReceiverRead, SenderRead
  <2>6. CASE ScanFails \/ Restart
    <3>1. Forget /\ ForgetMissed /\ UNCHANGED <<next, recorded>>
      BY <2>6 DEF ScanFails, Restart
    <3> QED BY <1>1, <1>2, <3>1, Forgotten
  <2> QED BY <2>1, <2>2, <2>3, <2>4, <2>5, <2>6 DEF Next, Register, Service, Scan
<1> QED BY <1>1, <1>2, <1>3 DEF IInv, ScanInv, ScanGoal

LEMMA AlwaysHolds == Spec => []IInv
  BY InitHolds, StepHolds, PTL DEF Spec

\* The Finder is never handed a transfer of a business whose tables are missing,
\* for any number of businesses that register while the scan looks at them.
THEOREM TablesAreThere == Spec => []BatchIsServed
<1>1. IInv => BatchIsServed
  BY DEF IInv, ScanInv, ReadFromTable, BatchIsServed, IsServed, Template
<1> QED BY <1>1, AlwaysHolds, PTL

\* An address that was answered with a type is stored with it, whatever requests
\* overlap, fail, or are repeated.
THEOREM AnswersAreStored == Spec => []AnsweredIsStored
  BY AlwaysHolds, PTL DEF IInv

\* A scanned transfer is recorded as what it was when it was mined, for any number
\* of businesses, and any addresses exported while its block is scanned.
THEOREM ClassifiesAsMined == Spec => []ClassifiedAsMined
<1>1. ASSUME IInv, NEW n \in 1..(next - 1), NEW b \in Business,
             SettledThen(n, b), <<n, b>> \notin missed
      PROVE  TypesIn(recorded, n, b)
                 = {Classify(chain[n].types[b][1], chain[n].types[b][2])} \ {Absent}
  <2>1. PICK from, to \in ListedType :
            /\ IsRead(n, b, chain[n].from, chain[n].types[b][1], from)
            /\ IsRead(n, b, chain[n].to, chain[n].types[b][2], to)
            /\ TypesIn(recorded, n, b) = {Classify(from, to)} \ {Absent}
    BY <1>1 DEF IInv, ScanInv, Classified, IsClassified
  <2>2. from = chain[n].types[b][1] /\ to = chain[n].types[b][2]
    BY <1>1, <2>1 DEF IsRead, SettledThen
  <2> QED BY <2>1, <2>2
<1>2. IInv => ClassifiedAsMined
  BY <1>1 DEF ClassifiedAsMined, TypesIn
<1> QED BY <1>2, AlwaysHolds, PTL

=============================================================================

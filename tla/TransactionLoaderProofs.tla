----------------------- MODULE TransactionLoaderProofs -----------------------
(***************************************************************************)
(* The safety properties of load_transaction_accounts, for every message,  *)
(* every set of keys, every bound on the chains, and a closure that may    *)
(* answer anything.                                                        *)
(***************************************************************************)
EXTENDS TransactionLoader, SequenceTheorems, WellFoundedInduction, TLAPS

Entries == [key : Keys, owner : Keys]

-----------------------------------------------------------------------------
(* The properties of chains as predicates of values: accounts accs, the    *)
(* first `first' of which are the message's, and a program at index p.     *)
OwnsIn(accs, first, chain) ==
  \A k \in 1..Len(chain) :
    /\ chain[k] < Len(accs)
    /\ k > 1 => /\ accs[chain[k] + 1].owner = accs[chain[k - 1] + 1].key
                /\ chain[k - 1] >= first

Follows(accs, first, p, chain) ==
  \/ chain = <<>> /\ p < Len(accs) /\ accs[p + 1].key = NativeLoader
  \/ /\ Len(chain) \in 1..CHAIN_DEPTH
     /\ chain[Len(chain)] = p
     /\ OwnsIn(accs, first, chain)
     /\ accs[chain[1] + 1].owner = NativeLoader

(* A chain from p that is still being followed: next is to be looked at.   *)
Unowned(accs, chain) ==
  \A k \in 1..Len(chain) : accs[chain[k] + 1].owner # NativeLoader
LeadsTo(accs, first, p, chain, next) ==
  /\ chain = <<>> => next = p
  /\ chain # <<>> => /\ chain[Len(chain)] = p
                     /\ first <= next /\ next < Len(accs)
                     /\ accs[chain[1] + 1].owner = accs[next + 1].key

(* Accounts are only appended, which leaves chains as they are. *)
LEMMA AppendKeepsOwns ==
  ASSUME NEW accs \in Seq(Entries), NEW e \in Entries, NEW first \in Nat,
         NEW chain \in Seq(Nat), OwnsIn(accs, first, chain)
  PROVE  OwnsIn(Append(accs, e), first, chain)
  <1>1. \A k \in 1..Len(chain) : chain[k] \in Nat
    BY ElementOfSeq
  <1>2. /\ Len(accs) \in Nat /\ Len(Append(accs, e)) = Len(accs) + 1
        /\ \A i \in 1..Len(accs) : Append(accs, e)[i] = accs[i]
    BY AppendProperties, LenProperties
  <1>3. Len(chain) \in Nat
    BY LenProperties
  <1>4. \A k \in 1..Len(chain) :
          chain[k] + 1 \in 1..Len(accs)
    BY <1>1, <1>2 DEF OwnsIn
  <1>5. ASSUME NEW k \in 1..Len(chain), k > 1
        PROVE  /\ Append(accs, e)[chain[k] + 1].owner
                    = Append(accs, e)[chain[k - 1] + 1].key
               /\ chain[k - 1] >= first
    <2>1. k - 1 \in 1..Len(chain)
      BY <1>3, <1>5
    <2> QED
      BY <1>2, <1>4, <1>5, <2>1 DEF OwnsIn
  <1>6. \A k \in 1..Len(chain) : chain[k] < Len(Append(accs, e))
    BY <1>1, <1>2 DEF OwnsIn
  <1> QED
    BY <1>5, <1>6 DEF OwnsIn

(* A finished chain stays right when an account is appended. *)
LEMMA AppendKeepsFollows ==
  ASSUME NEW accs \in Seq(Entries), NEW e \in Entries, NEW first \in Nat,
         NEW p \in Nat, NEW chain \in Seq(Nat), Follows(accs, first, p, chain)
  PROVE  Follows(Append(accs, e), first, p, chain)
  <1>1. /\ Len(accs) \in Nat /\ Len(Append(accs, e)) = Len(accs) + 1
        /\ \A i \in 1..Len(accs) : Append(accs, e)[i] = accs[i]
    BY AppendProperties, LenProperties
  <1>2. CASE chain = <<>> /\ p < Len(accs) /\ accs[p + 1].key = NativeLoader
    <2>1. p + 1 \in 1..Len(accs)
      BY <1>1, <1>2
    <2> QED
      BY <1>1, <1>2, <2>1 DEF Follows
  <1>3. CASE /\ Len(chain) \in 1..CHAIN_DEPTH
             /\ chain[Len(chain)] = p
             /\ OwnsIn(accs, first, chain)
             /\ accs[chain[1] + 1].owner = NativeLoader
    <2>1. 1 \in 1..Len(chain)
      BY <1>3, MessagesAssumption
    <2>2. chain[1] + 1 \in 1..Len(accs)
      BY <1>1, <1>3, <2>1, ElementOfSeq DEF OwnsIn
    <2> QED
      BY <1>1, <1>3, <2>2, AppendKeepsOwns DEF Follows
  <1> QED
    BY <1>2, <1>3 DEF Follows

(* So does what is known of the owners in the chain being followed. *)
LEMMA AppendKeepsUnowned ==
  ASSUME NEW accs \in Seq(Entries), NEW e \in Entries, NEW first \in Nat,
         NEW chain \in Seq(Nat), OwnsIn(accs, first, chain),
         Unowned(accs, chain)
  PROVE  Unowned(Append(accs, e), chain)
  <1>1. /\ Len(accs) \in Nat
        /\ \A i \in 1..Len(accs) : Append(accs, e)[i] = accs[i]
    BY AppendProperties, LenProperties
  <1>2. \A k \in 1..Len(chain) : chain[k] + 1 \in 1..Len(accs)
    BY <1>1, ElementOfSeq DEF OwnsIn
  <1> QED
    BY <1>1, <1>2 DEF Unowned

(* account_indices.insert(0, program_index). *)
LEMMA LinkedProperties ==
  ASSUME NEW chain \in Seq(Nat), NEW next \in Nat
  PROVE  LET linked == <<next>> \o chain IN
         /\ linked \in Seq(Nat) /\ linked # <<>>
         /\ Len(linked) = Len(chain) + 1
         /\ linked[1] = next
         /\ \A k \in 1..Len(chain) : linked[k + 1] = chain[k]
  <1> DEFINE linked == <<next>> \o chain
  <1>1. <<next>> \in Seq(Nat) /\ Len(<<next>>) = 1 /\ <<next>>[1] = next
    OBVIOUS
  <1>2. Len(chain) \in Nat
    BY LenProperties
  <1>3. /\ linked \in Seq(Nat) /\ Len(linked) = 1 + Len(chain)
        /\ \A i \in 1..(1 + Len(chain)) :
             linked[i] = IF i <= 1 THEN <<next>>[i] ELSE chain[i - 1]
    BY <1>1, ConcatProperties
  <1>4. linked[1] = next
    BY <1>1, <1>2, <1>3
  <1>5. ASSUME NEW k \in 1..Len(chain)
        PROVE  linked[k + 1] = chain[k]
    <2>1. k + 1 \in 1..(1 + Len(chain)) /\ ~(k + 1 <= 1) /\ (k + 1) - 1 = k
      BY <1>2
    <2> QED
      BY <1>3, <2>1
  <1>6. linked # <<>>
    BY <1>2, <1>3, EmptySeq
  <1> QED
    BY <1>2, <1>3, <1>4, <1>5, <1>6

(* The chain with the next account put before it: each still owns the one  *)
(* after it.                                                               *)
LEMMA LinkedOwns ==
  ASSUME NEW accs \in Seq(Entries), NEW first \in Nat, NEW p \in Nat,
         NEW chain \in Seq(Nat), NEW next \in Nat, next < Len(accs),
         OwnsIn(accs, first, chain), LeadsTo(accs, first, p, chain, next)
  PROVE  /\ OwnsIn(accs, first, <<next>> \o chain)
         /\ (<<next>> \o chain)[Len(chain) + 1] = p
  <1> DEFINE linked == <<next>> \o chain
  <1> HIDE DEF linked
  <1>1. /\ linked \in Seq(Nat)
        /\ Len(linked) = Len(chain) + 1
        /\ linked[1] = next
        /\ \A k \in 1..Len(chain) : linked[k + 1] = chain[k]
    BY LinkedProperties DEF linked
  <1>2. Len(chain) \in Nat
    BY LenProperties
  <1>3. linked[Len(chain) + 1] = p
    <2>1. CASE chain = <<>>
      BY <1>1, <2>1, EmptySeq DEF LeadsTo
    <2>2. CASE chain # <<>>
      <3>1. Len(chain) \in 1..Len(chain)
        BY <2>2, EmptySeq
      <3> QED
        BY <1>1, <2>2, <3>1 DEF LeadsTo
    <2> QED
      BY <2>1, <2>2
  <1>4. ASSUME NEW k \in 1..Len(linked)
        PROVE  /\ linked[k] < Len(accs)
               /\ k > 1 => /\ accs[linked[k] + 1].owner
                                = accs[linked[k - 1] + 1].key
                           /\ linked[k - 1] >= first
    <2>1. CASE k = 1
      BY <1>1, <2>1
    <2>2. CASE k = 2
      <3>1. 1 \in 1..Len(chain) /\ chain # <<>> /\ 2 - 1 = 1 /\ 1 + 1 = 2
        BY <1>1, <1>2, <2>2, EmptySeq
      <3>2. linked[2] = chain[1] /\ linked[1] = next
        BY <1>1, <3>1
      <3>3. chain[1] < Len(accs) /\ first <= next
            /\ accs[chain[1] + 1].owner = accs[next + 1].key
        BY <3>1 DEF OwnsIn, LeadsTo
      <3> QED
        BY <2>2, <3>1, <3>2, <3>3
    <2>3. CASE k > 2
      <3> DEFINE j == k - 1
      <3>1. j \in 1..Len(chain) /\ j > 1 /\ j - 1 \in 1..Len(chain)
            /\ k = j + 1 /\ j = (j - 1) + 1
        BY <1>1, <1>2, <2>3
      <3>2. linked[k] = chain[j] /\ linked[k - 1] = chain[j - 1]
        BY <1>1, <3>1
      <3>3. chain[j] < Len(accs)
            /\ accs[chain[j] + 1].owner = accs[chain[j - 1] + 1].key
            /\ chain[j - 1] >= first
        BY <3>1 DEF OwnsIn
      <3> QED
        BY <3>2, <3>3
    <2> QED
      BY <1>1, <1>2, <2>1, <2>2, <2>3
  <1> QED
    BY <1>3, <1>4 DEF OwnsIn, linked

(* None of it is owned by the native loader if the new one is not. *)
LEMMA LinkedUnowned ==
  ASSUME NEW accs \in Seq(Entries), NEW chain \in Seq(Nat), NEW next \in Nat,
         Unowned(accs, chain), accs[next + 1].owner # NativeLoader
  PROVE  Unowned(accs, <<next>> \o chain)
  <1> DEFINE linked == <<next>> \o chain
  <1> HIDE DEF linked
  <1>1. /\ Len(linked) = Len(chain) + 1
        /\ linked[1] = next
        /\ \A k \in 1..Len(chain) : linked[k + 1] = chain[k]
    BY LinkedProperties DEF linked
  <1>2. Len(chain) \in Nat
    BY LenProperties
  <1>3. ASSUME NEW k \in 1..Len(linked)
        PROVE  accs[linked[k] + 1].owner # NativeLoader
    <2>1. CASE k = 1
      BY <1>1, <2>1
    <2>2. CASE k > 1
      <3>1. k - 1 \in 1..Len(chain) /\ (k - 1) + 1 = k
        BY <1>1, <1>2, <2>2
      <3> QED
        BY <1>1, <3>1 DEF Unowned
    <2> QED
      BY <1>1, <1>2, <2>1, <2>2
  <1> QED
    BY <1>3 DEF Unowned, linked

(* A set of indices has a first. *)
LEMMA LeastExists ==
  ASSUME NEW I \in SUBSET Nat, I # {}
  PROVE  \E i \in I : \A j \in I : i <= j
  <1> DEFINE R == OpToRel(<, Nat)
  <1>1. PICK i \in I : \A j \in I : ~(<<j, i>> \in R)
    BY NatLessThanWellFounded, WFMin
  <1>2. \A j \in I : ~(j < i)
    BY <1>1 DEF OpToRel
  <1> QED
    BY <1>2

-----------------------------------------------------------------------------
(* Loaders are appended only once all of the message's accounts are there. *)
Phases ==
  /\ pc = "accounts" => Len(accounts) <= Len(msg.keys)
  /\ pc \in {"instructions", "chain"} =>
       builtins_start_index = Len(msg.keys) /\ Len(msg.keys) <= Len(accounts)
  /\ pc # "done" => result = "none"

(* Every finished chain is right, in the accounts as they are now. *)
Finished ==
  /\ Len(program_indices) <= Len(msg.programs)
  /\ \A n \in 1..Len(program_indices) :
       Follows(accounts, Len(msg.keys), msg.programs[n], program_indices[n])

(* The chain being followed has one account for each turn, none of them    *)
(* owned by the native loader, and leads from the program to the next.     *)
Current ==
  pc = "chain" =>
    /\ Len(program_indices) < Len(msg.programs)
    /\ Len(account_indices) = depth
    /\ OwnsIn(accounts, Len(msg.keys), account_indices)
    /\ Unowned(accounts, account_indices)
    /\ LeadsTo(accounts, Len(msg.keys),
               msg.programs[Len(program_indices) + 1],
               account_indices, program_index)

IInv ==
  /\ TypeOK
  /\ Phases
  /\ MessageAccountsFirst
  /\ LoadersOnce
  /\ Finished
  /\ Current
  /\ TooDeepOnlyIfDeep

-----------------------------------------------------------------------------
(* The types of the message, the accounts and the chains. *)
LEMMA MessageTypes ==
  ASSUME TypeOK
  PROVE  /\ msg.keys \in Seq(Keys) /\ Len(msg.keys) \in Nat
         /\ msg.programs \in Seq(Nat) /\ Len(msg.programs) \in Nat
         /\ \A n \in 1..Len(msg.programs) : msg.programs[n] \in Nat
         /\ accounts \in Seq(Entries) /\ Len(accounts) \in Nat
         /\ \A i \in 1..Len(accounts) : accounts[i] \in Entries
         /\ Len(program_indices) \in Nat /\ Len(account_indices) \in Nat
         /\ \A n \in 1..Len(program_indices) : program_indices[n] \in Seq(Nat)
  <1>1. msg.keys \in Seq(Keys) /\ msg.programs \in Seq(Nat)
    BY MessagesAssumption DEF TypeOK
  <1> QED
    BY <1>1, LenProperties, ElementOfSeq DEF TypeOK, Entries

(* A call begins in a state of the invariant. *)
LEMMA InitInvariant == Init => IInv
  <1> SUFFICES ASSUME Init
               PROVE  IInv
    OBVIOUS
  <1> USE DEF Init
  <1>1. TypeOK
    BY MessagesAssumption, EmptySeq DEF TypeOK, Results
  <1>2. Len(msg.keys) \in Nat /\ Len(msg.programs) \in Nat
    BY <1>1, MessageTypes
  <1> QED
    BY <1>1, <1>2, EmptySeq
    DEF IInv, Phases, MessageAccountsFirst, LoadersOnce, Finished, Current,
        TooDeepOnlyIfDeep

(* An account is appended: chains finished stay right. *)
LEMMA AppendKeepsFinished ==
  ASSUME TypeOK, Finished, NEW e \in Entries, accounts' = Append(accounts, e),
         UNCHANGED <<msg, program_indices>>
  PROVE  Finished'
  <1>1. ASSUME NEW n \in 1..Len(program_indices)
        PROVE  Follows(Append(accounts, e), Len(msg.keys), msg.programs[n],
                       program_indices[n])
    <2>1. n \in 1..Len(msg.programs)
      BY MessageTypes DEF Finished
    <2> QED
      BY <2>1, MessageTypes, AppendKeepsFollows DEF Finished
  <1> QED
    BY <1>1 DEF Finished

(* A turn of the loop over the account keys keeps the invariant. *)
LEMMA LoadAccountStep ==
  ASSUME IInv, LoadAccount
  PROVE  IInv'
  <1> USE DEF IInv
  <1> DEFINE key == msg.keys[Len(accounts) + 1]
  <1>1. /\ pc = "accounts" /\ Len(accounts) < Len(msg.keys)
        /\ UNCHANGED <<msg, builtins_start_index, program_indices,
                       account_indices, program_index, depth>>
    BY DEF LoadAccount
  <1>2. Len(accounts) + 1 \in 1..Len(msg.keys) /\ key \in Keys
    BY <1>1, MessageTypes, ElementOfSeq
  <1>3. CASE Return("AccountNotFound") /\ UNCHANGED accounts
    BY <1>1, <1>3
    DEF Return, TypeOK, Results, Phases, MessageAccountsFirst, LoadersOnce,
        Finished, Current, TooDeepOnlyIfDeep
  <1>4. ASSUME NEW owner \in Keys,
               accounts' = Append(accounts, Entry(key, owner)),
               UNCHANGED <<pc, result>>
        PROVE  IInv'
    <2> DEFINE e == Entry(key, owner)
    <2>1. e \in Entries /\ e.key = key
      BY <1>2 DEF Entry, Entries
    <2>2. /\ accounts' \in Seq(Entries)
          /\ Len(accounts') = Len(accounts) + 1
          /\ \A i \in 1..Len(accounts) : accounts'[i] = accounts[i]
          /\ accounts'[Len(accounts) + 1] = e
      BY <1>4, <2>1, MessageTypes, AppendProperties
    <2>3. TypeOK'
      BY <1>1, <1>4, <2>2 DEF TypeOK, Entries
    <2>4. MessageAccountsFirst'
      <3>1. ASSUME NEW i \in 1..Len(accounts'), i <= Len(msg.keys)
            PROVE  accounts'[i].key = msg.keys[i]
        <4>1. CASE i \in 1..Len(accounts)
          BY <2>2, <3>1, <4>1 DEF MessageAccountsFirst
        <4>2. CASE i = Len(accounts) + 1
          BY <2>1, <2>2, <4>2
        <4> QED
          BY <2>2, <4>1, <4>2, MessageTypes
      <3> QED
        BY <1>1, <3>1 DEF MessageAccountsFirst
    <2>5. LoadersOnce'
      BY <1>1, <2>2, MessageTypes DEF LoadersOnce
    <2>6. Finished'
      BY <1>1, <1>4, <2>1, AppendKeepsFinished
    <2>7. Phases' /\ Current' /\ TooDeepOnlyIfDeep'
      BY <1>1, <1>4, <2>2, MessageTypes
      DEF Phases, Current, TooDeepOnlyIfDeep
    <2> QED
      BY <2>3, <2>4, <2>5, <2>6, <2>7
  <1> QED
    BY <1>3, <1>4, KeysAssumption DEF LoadAccount

(* The message's accounts are complete. *)
LEMMA AccountsLoadedStep ==
  ASSUME IInv, AccountsLoaded
  PROVE  IInv'
  BY MessageTypes
  DEF IInv, AccountsLoaded, TypeOK, Phases, MessageAccountsFirst, LoadersOnce,
      Finished, Current, TooDeepOnlyIfDeep

(* A chain begins at the instruction's program. *)
LEMMA StartChainStep ==
  ASSUME IInv, StartChain
  PROVE  IInv'
  <1> USE DEF IInv
  <1>1. Len(program_indices) + 1 \in 1..Len(msg.programs)
    BY MessageTypes DEF StartChain
  <1>2. TypeOK'
    BY <1>1, MessageTypes, MessagesAssumption, EmptySeq DEF StartChain, TypeOK
  <1>3. Current'
    BY EmptySeq DEF StartChain, Current, OwnsIn, Unowned, LeadsTo
  <1>4. Phases' /\ MessageAccountsFirst' /\ LoadersOnce' /\ Finished'
    BY DEF StartChain, Phases, MessageAccountsFirst, LoadersOnce, Finished
  <1>5. TooDeepOnlyIfDeep'
    BY DEF StartChain, TooDeepOnlyIfDeep, Phases
  <1> QED
    BY <1>2, <1>3, <1>4, <1>5

-----------------------------------------------------------------------------
(* The ways a turn ends. *)
LEMMA FailStep ==
  ASSUME IInv, pc = "chain",
         NEW r \in {"ProgramAccountNotFound", "CallChainTooDeep"}, Fail(r),
         r = "CallChainTooDeep" => depth = CHAIN_DEPTH,
         UNCHANGED <<msg, builtins_start_index>>
  PROVE  IInv'
  <1> USE DEF IInv, Fail, Return
  <1>1. TypeOK' /\ Phases' /\ MessageAccountsFirst' /\ LoadersOnce' /\ Finished'
        /\ Current'
    BY DEF TypeOK, Results, Phases, MessageAccountsFirst, LoadersOnce, Finished,
           Current
  <1>2. TooDeepOnlyIfDeep'
    BY DEF TooDeepOnlyIfDeep, Current, Owns, OwnsIn, Unowned
  <1> QED
    BY <1>1, <1>2

(* A chain that is right joins the finished ones. *)
LEMMA FinishChainStep ==
  ASSUME IInv, pc = "chain", NEW chain \in Seq(Nat), FinishChain(chain),
         UNCHANGED <<msg, builtins_start_index>>,
         Follows(accounts, Len(msg.keys),
                 msg.programs[Len(program_indices) + 1], chain)
  PROVE  IInv'
  <1> USE DEF IInv, FinishChain
  <1>1. /\ program_indices' \in Seq(Seq(Nat))
        /\ Len(program_indices') = Len(program_indices) + 1
        /\ \A n \in 1..Len(program_indices) :
             program_indices'[n] = program_indices[n]
        /\ program_indices'[Len(program_indices) + 1] = chain
    BY AppendProperties DEF TypeOK
  <1>2. TypeOK' /\ Phases' /\ MessageAccountsFirst' /\ LoadersOnce' /\ Current'
        /\ TooDeepOnlyIfDeep'
    BY <1>1 DEF TypeOK, Phases, MessageAccountsFirst, LoadersOnce, Current,
                TooDeepOnlyIfDeep
  <1>3. Finished'
    <2>1. Len(program_indices') <= Len(msg.programs)
      BY <1>1, MessageTypes DEF Current
    <2>2. ASSUME NEW n \in 1..Len(program_indices')
          PROVE  Follows(accounts, Len(msg.keys), msg.programs[n],
                         program_indices'[n])
      <3>1. CASE n \in 1..Len(program_indices)
        BY <1>1, <3>1 DEF Finished
      <3>2. CASE n = Len(program_indices) + 1
        BY <1>1, <3>2
      <3> QED
        BY <1>1, <3>1, <3>2, MessageTypes
    <2> QED
      BY <2>1, <2>2 DEF Finished
  <1> QED
    BY <1>2, <1>3

(* What holds of the program when a turn looks at it. *)
LEMMA TurnFacts ==
  ASSUME IInv, pc = "chain", program_index < Len(accounts)
  PROVE  /\ program_index \in Nat /\ program_index + 1 \in 1..Len(accounts)
         /\ Program \in Entries
         /\ msg.programs[Len(program_indices) + 1] \in Nat
         /\ account_indices \in Seq(Nat) /\ Linked \in Seq(Nat)
         /\ Len(Linked) = depth + 1
         /\ Linked # <<>> /\ Linked[1] = program_index
         /\ Linked[depth + 1] = msg.programs[Len(program_indices) + 1]
         /\ OwnsIn(accounts, Len(msg.keys), Linked)
         /\ builtins_start_index = Len(msg.keys)
         /\ Len(msg.keys) <= Len(accounts)
  <1> USE DEF IInv
  <1>1. program_index \in Nat /\ program_index + 1 \in 1..Len(accounts)
    BY MessageTypes DEF TypeOK
  <1>2. Len(program_indices) + 1 \in 1..Len(msg.programs)
    BY MessageTypes DEF Current
  <1>3. account_indices \in Seq(Nat)
    BY DEF TypeOK
  <1>4. /\ Linked \in Seq(Nat) /\ Len(Linked) = depth + 1
        /\ Linked # <<>> /\ Linked[1] = program_index
    BY <1>1, <1>3, LinkedProperties DEF Linked, Current
  <1>5. /\ OwnsIn(accounts, Len(msg.keys), Linked)
        /\ Linked[depth + 1] = msg.programs[Len(program_indices) + 1]
    <2> DEFINE p == msg.programs[Len(program_indices) + 1]
               first == Len(msg.keys)
    <2>1. accounts \in Seq(Entries) /\ first \in Nat /\ p \in Nat
      BY <1>2, MessageTypes
    <2>2. /\ OwnsIn(accounts, first, account_indices)
          /\ LeadsTo(accounts, first, p, account_indices, program_index)
          /\ Len(account_indices) = depth
      BY DEF Current
    <2> HIDE DEF p, first
    <2>3. /\ OwnsIn(accounts, first, <<program_index>> \o account_indices)
          /\ (<<program_index>> \o account_indices)[Len(account_indices) + 1] = p
      BY <1>1, <1>3, <2>1, <2>2, LinkedOwns
    <2> QED
      BY <2>2, <2>3 DEF Linked, p, first
  <1> QED
    BY <1>1, <1>2, <1>3, <1>4, <1>5, MessageTypes DEF Program, Phases

(* A turn that goes on to the owner, found or appended, leads one account  *)
(* further.                                                                *)
LEMMA FollowStep ==
  ASSUME IInv, pc = "chain", TurnsLeft, program_index < Len(accounts),
         Program.owner # NativeLoader,
         NEW i \in Nat, Follow(i),
         UNCHANGED <<msg, builtins_start_index>>,
         \/ UNCHANGED accounts
         \/ \E e \in Entries : accounts' = Append(accounts, e),
         Len(msg.keys) <= i, i < Len(accounts'),
         accounts'[i + 1].key = Program.owner
  PROVE  TypeOK' /\ Phases' /\ Finished' /\ Current' /\ TooDeepOnlyIfDeep'
  <1> USE DEF IInv, Follow
  <1> DEFINE p == msg.programs[Len(program_indices) + 1]
             first == Len(msg.keys)
  <1>1. /\ accounts' \in Seq(Entries) /\ Len(accounts') \in Nat
        /\ Len(accounts) <= Len(accounts')
        /\ \A k \in 1..Len(accounts) : accounts'[k] = accounts[k]
    <2>1. CASE UNCHANGED accounts
      BY <2>1, MessageTypes
    <2>2. ASSUME NEW e \in Entries, accounts' = Append(accounts, e)
          PROVE  /\ accounts' \in Seq(Entries) /\ Len(accounts') \in Nat
                 /\ Len(accounts) <= Len(accounts')
                 /\ \A k \in 1..Len(accounts) : accounts'[k] = accounts[k]
      BY <2>2, MessageTypes, AppendProperties
    <2> QED
      BY <2>1, <2>2
  <1>2. OwnsIn(accounts, first, Linked) /\ Unowned(accounts, Linked)
    BY TurnFacts, MessageTypes, LinkedUnowned DEF Linked, Program, Current
  <1>3. OwnsIn(accounts', first, Linked) /\ Unowned(accounts', Linked)
    <2>1. CASE UNCHANGED accounts
      BY <1>2, <2>1
    <2>2. ASSUME NEW e \in Entries, accounts' = Append(accounts, e)
          PROVE  OwnsIn(accounts', first, Linked) /\ Unowned(accounts', Linked)
      BY <1>2, <2>2, TurnFacts, MessageTypes, AppendKeepsOwns,
         AppendKeepsUnowned
    <2> QED
      BY <2>1, <2>2
  <1>4. LeadsTo(accounts', first, p, Linked, i)
    <2>1. accounts'[Linked[1] + 1].owner = accounts'[i + 1].key
      BY <1>1, TurnFacts DEF Program
    <2> QED
      BY <2>1, TurnFacts DEF LeadsTo
  <1>5. TypeOK'
    BY <1>1, TurnFacts, MessagesAssumption DEF TypeOK, TurnsLeft, Entries
  <1>6. Current'
    BY <1>3, <1>4, TurnFacts DEF Current
  <1>7. Finished'
    BY AppendKeepsFinished DEF Finished
  <1>8. Phases'
    BY <1>1, MessageTypes DEF Phases
  <1>9. TooDeepOnlyIfDeep'
    BY DEF TooDeepOnlyIfDeep, Phases
  <1> QED
    BY <1>5, <1>6, <1>7, <1>8, <1>9

(* The loaders are after the accounts of the message. *)
LEMMA LoadersAfter ==
  ASSUME IInv, pc = "chain", program_index < Len(accounts)
  PROVE  builtins_start_index = Len(msg.keys)
         /\ Len(msg.keys) \in Nat /\ Len(accounts) \in Nat
  <1>1. TypeOK
    BY DEF IInv
  <1>2. Len(msg.keys) \in Nat /\ Len(accounts) \in Nat
    BY <1>1, MessageTypes
  <1>3. builtins_start_index = Len(msg.keys)
    BY TurnFacts
  <1> QED
    BY <1>2, <1>3

(* Every way out of a turn of the inner loop keeps the invariant. *)
LEMMA ChainStepStep ==
  ASSUME IInv, ChainStep
  PROVE  IInv'
  <1> USE DEF IInv
  <1>1. pc = "chain" /\ TurnsLeft /\ UNCHANGED <<msg, builtins_start_index>>
    BY DEF ChainStep
  <1>2. CASE Fail("ProgramAccountNotFound")
    BY <1>1, <1>2, FailStep
  <1>3. CASE /\ program_index < Len(accounts) /\ Program.key = NativeLoader
             /\ FinishChain(account_indices)
    <2>1. account_indices = <<>>
      <3> SUFFICES ASSUME account_indices # <<>>
                   PROVE  FALSE
        OBVIOUS
      <3>1. 1 \in 1..Len(account_indices)
        BY MessageTypes, EmptySeq DEF TypeOK
      <3>2. accounts[account_indices[1] + 1].owner = Program.key
        BY <1>1 DEF Current, LeadsTo, Program
      <3> QED
        BY <1>1, <1>3, <3>1, <3>2 DEF Current, Unowned
    <2>2. Follows(accounts, Len(msg.keys),
                  msg.programs[Len(program_indices) + 1], account_indices)
      BY <1>1, <1>3, <2>1 DEF Follows, Current, LeadsTo, Program
    <2> QED
      BY <1>1, <1>3, <2>2, TurnFacts, FinishChainStep
  <1>4. CASE /\ program_index < Len(accounts) /\ Program.owner = NativeLoader
             /\ FinishChain(Linked)
    <2>1. Len(Linked) \in 1..CHAIN_DEPTH
      BY <1>1, <1>4, TurnFacts, MessagesAssumption DEF TypeOK, TurnsLeft
    <2>2. Follows(accounts, Len(msg.keys),
                  msg.programs[Len(program_indices) + 1], Linked)
      BY <1>1, <1>4, <2>1, TurnFacts DEF Follows, Program
    <2> QED
      BY <1>1, <1>4, <2>2, TurnFacts, FinishChainStep
  <1>5. CASE /\ program_index < Len(accounts)
             /\ Program.owner # NativeLoader
             /\ Loaded(Program.owner) # {}
             /\ Follow(First(Loaded(Program.owner)))
             /\ UNCHANGED accounts
    <2> DEFINE i == First(Loaded(Program.owner))
    <2>1. Loaded(Program.owner) \subseteq Nat
      <3>1. builtins_start_index \in Nat /\ Len(accounts) \in Nat
        BY <1>1, <1>5, LoadersAfter
      <3> QED
        BY <3>1 DEF Loaded
    <2>2. i \in Loaded(Program.owner)
      BY <1>5, <2>1, LeastExists DEF First
    <2>3. i \in Nat /\ Len(msg.keys) <= i /\ i < Len(accounts)
          /\ accounts[i + 1].key = Program.owner
      <3> HIDE DEF i
      <3>1. /\ i \in builtins_start_index..(Len(accounts) - 1)
            /\ accounts[i + 1].key = Program.owner
        BY <2>2 DEF Loaded
      <3>2. /\ builtins_start_index = Len(msg.keys)
            /\ Len(msg.keys) \in Nat /\ Len(accounts) \in Nat
        BY <1>1, <1>5, TurnFacts, MessageTypes
      <3> QED
        BY <3>1, <3>2
    <2>4. TypeOK' /\ Phases' /\ Finished' /\ Current' /\ TooDeepOnlyIfDeep'
      BY <1>1, <1>5, <2>3, FollowStep
    <2>5. MessageAccountsFirst' /\ LoadersOnce'
      BY <1>1, <1>5 DEF MessageAccountsFirst, LoadersOnce
    <2> QED
      BY <2>4, <2>5
  <1>6. ASSUME program_index < Len(accounts),
               Program.owner # NativeLoader,
               Loaded(Program.owner) = {},
               NEW owner \in Keys,
               accounts' = Pushed(Entry(Program.owner, owner)),
               Follow(Len(accounts))
        PROVE  IInv'
    <2> DEFINE e == Entry(Program.owner, owner)
    <2>1. e \in Entries /\ e.key = Program.owner
      BY <1>1, <1>6, TurnFacts DEF Entry, Entries
    <2>2. /\ accounts' = Append(accounts, e)
          /\ Len(accounts') = Len(accounts) + 1
          /\ \A k \in 1..Len(accounts) : accounts'[k] = accounts[k]
          /\ accounts'[Len(accounts) + 1] = e
      BY <1>6, <2>1, MessageTypes, AppendProperties DEF Pushed
    <2>3. TypeOK' /\ Phases' /\ Finished' /\ Current' /\ TooDeepOnlyIfDeep'
      <3> DEFINE i == Len(accounts)
      <3>1. /\ i \in Nat /\ Len(msg.keys) <= i /\ i < Len(accounts')
            /\ accounts'[i + 1].key = Program.owner
        BY <1>1, <1>6, <2>1, <2>2, TurnFacts, MessageTypes
      <3>2. \E x \in Entries : accounts' = Append(accounts, x)
        BY <2>1, <2>2
      <3>3. Follow(i)
        BY <1>6
      <3> HIDE DEF i, e
      <3> QED
        BY <1>1, <1>6, <3>1, <3>2, <3>3, FollowStep
    <2>4. MessageAccountsFirst'
      <3>1. Len(msg.keys) <= Len(accounts)
        BY <1>1, <1>6, TurnFacts
      <3>2. ASSUME NEW k \in 1..Len(accounts'), k <= Len(msg.keys)
            PROVE  accounts'[k].key = msg.keys[k]
        <4>1. k \in 1..Len(accounts)
          BY <3>1, <3>2, MessageTypes
        <4> QED
          BY <2>2, <3>2, <4>1 DEF MessageAccountsFirst
      <3> QED
        BY <1>1, <3>2 DEF MessageAccountsFirst
    <2>5. \A k \in (Len(msg.keys) + 1)..Len(accounts) :
            accounts[k].key # Program.owner
      <3> SUFFICES ASSUME NEW k \in (Len(msg.keys) + 1)..Len(accounts),
                          accounts[k].key = Program.owner
                   PROVE  FALSE
        OBVIOUS
      <3>1. k - 1 \in builtins_start_index..(Len(accounts) - 1)
            /\ (k - 1) + 1 = k
        <4>1. builtins_start_index = Len(msg.keys)
              /\ Len(msg.keys) \in Nat /\ Len(accounts) \in Nat
          BY <1>1, <1>6, LoadersAfter
        <4> QED
          BY <4>1
      <3>2. k - 1 \in Loaded(Program.owner)
        BY <3>1 DEF Loaded
      <3> QED
        BY <1>6, <3>2
    <2>6. LoadersOnce'
      <3> SUFFICES ASSUME NEW i \in (Len(msg.keys) + 1)..Len(accounts'),
                          NEW j \in (Len(msg.keys) + 1)..Len(accounts')
                   PROVE  /\ accounts'[i].key = accounts'[j].key => i = j
                          /\ accounts'[i].key # NativeLoader
        BY <1>1 DEF LoadersOnce
      <3>1. \A k \in (Len(msg.keys) + 1)..Len(accounts') :
              \/ /\ k \in (Len(msg.keys) + 1)..Len(accounts)
                 /\ accounts'[k] = accounts[k]
              \/ k = Len(accounts) + 1 /\ accounts'[k].key = Program.owner
        BY <2>1, <2>2, MessageTypes
      <3> QED
        BY <1>6, <2>5, <3>1 DEF LoadersOnce
    <2> QED
      BY <2>3, <2>4, <2>6
  <1> QED
    BY <1>2, <1>3, <1>4, <1>5, <1>6 DEF ChainStep

(* Every step keeps the invariant. *)
LEMMA NextInvariant == IInv /\ [Next]_vars => IInv'
  <1> SUFFICES ASSUME IInv, [Next]_vars
               PROVE  IInv'
    OBVIOUS
  <1>1. CASE TooDeep
    <2>1. depth = CHAIN_DEPTH
      BY <1>1, MessagesAssumption DEF TooDeep, TurnsLeft, IInv, TypeOK
    <2> QED
      BY <1>1, <2>1, FailStep DEF TooDeep
  <1>2. CASE Finish
    BY <1>2
    DEF IInv, Finish, Return, TypeOK, Results, Phases, MessageAccountsFirst,
        LoadersOnce, Finished, Current, TooDeepOnlyIfDeep
  <1>3. CASE UNCHANGED vars
    BY <1>3
    DEF IInv, vars, TypeOK, Phases, MessageAccountsFirst, LoadersOnce, Finished,
        Current, TooDeepOnlyIfDeep, Owns
  <1> QED
    BY <1>1, <1>2, <1>3, LoadAccountStep, AccountsLoadedStep, StartChainStep,
       ChainStepStep
    DEF Next, Step, Returned

(* IInv holds in every state. *)
LEMMA Invariance == Spec => []IInv
  BY InitInvariant, NextInvariant, PTL DEF Spec

-----------------------------------------------------------------------------
(* Every local of load_transaction_accounts keeps its type, and the inner  *)
(* loop never takes more than CHAIN_DEPTH turns.                           *)
THEOREM LoaderTypeCorrect == Spec => []TypeOK
  <1>1. IInv => TypeOK
    BY DEF IInv
  <1> QED
    BY <1>1, Invariance, PTL

(* The accounts of the message come first and in the message's order, how  *)
(* ever many loaders are appended for its instructions.                    *)
THEOREM LoaderMessageAccountsFirst == Spec => []MessageAccountsFirst
  <1>1. IInv => MessageAccountsFirst
    BY DEF IInv
  <1> QED
    BY <1>1, Invariance, PTL

(* No loader is appended twice, and the native loader never is, although   *)
(* the closure may answer a key differently each time it is asked.         *)
THEOREM LoaderLoadersOnce == Spec => []LoadersOnce
  <1>1. IInv => LoadersOnce
    BY DEF IInv
  <1> QED
    BY <1>1, Invariance, PTL

(* Every chain pushed to program_indices leads from an account that the    *)
(* native loader owns to the instruction's program, and stays right while  *)
(* loaders are appended for the later instructions.                        *)
THEOREM LoaderChainsFollowOwners == Spec => []ChainsFollowOwners
  <1>1. IInv => ChainsFollowOwners
    BY DEF IInv, Finished, Follows, OwnsIn, ChainsFollowOwners, Owns
  <1> QED
    BY <1>1, Invariance, PTL

(* CallChainTooDeep is answered only to CHAIN_DEPTH accounts in a row that *)
(* own each other, none of them owned by the native loader.                *)
THEOREM LoaderTooDeepOnlyIfDeep == Spec => []TooDeepOnlyIfDeep
  <1>1. IInv => TooDeepOnlyIfDeep
    BY DEF IInv
  <1> QED
    BY <1>1, Invariance, PTL

-----------------------------------------------------------------------------
(* The steps left: the accounts to load, and for each instruction to come  *)
(* the turns of its chain.                                                 *)
Turns == CHAIN_DEPTH + 3
ToDo == Len(msg.programs) - Len(program_indices)
Variant ==
  IF pc = "accounts" THEN Len(msg.keys) - Len(accounts) + 2 + Turns * ToDo
  ELSE IF pc = "instructions" THEN 1 + Turns * ToDo
  ELSE IF pc = "chain" THEN 2 + (CHAIN_DEPTH - depth) + Turns * (ToDo - 1)
  ELSE 0
Less == Variant \in Nat /\ Variant' \in 0..(Variant - 1)
Progress == [][Less]_vars

(* One instruction less to do. *)
LEMMA OneInstructionLess ==
  ASSUME NEW n \in Nat, NEW t \in Nat
  PROVE  /\ t * n \in Nat
         /\ n > 0 => t * (n - 1) \in Nat /\ t * n = t * (n - 1) + t
  OBVIOUS

(* What is left to do, in each part of the call. *)
LEMMA StepsLeft ==
  ASSUME IInv
  PROVE  /\ Len(msg.keys) \in Nat /\ Len(accounts) \in Nat /\ ToDo \in Nat
         /\ Turns \in Nat /\ Turns = CHAIN_DEPTH + 3
         /\ CHAIN_DEPTH \in Nat /\ depth \in 0..CHAIN_DEPTH
         /\ Turns * ToDo \in Nat
         /\ ToDo > 0 => /\ Turns * (ToDo - 1) \in Nat
                        /\ Turns * ToDo = Turns * (ToDo - 1) + Turns
         /\ pc = "accounts" => Len(accounts) <= Len(msg.keys)
         /\ pc = "chain" => ToDo > 0
  <1>1. TypeOK
    BY DEF IInv
  <1>2. /\ Len(msg.keys) \in Nat /\ Len(accounts) \in Nat
        /\ Len(msg.programs) \in Nat /\ Len(program_indices) \in Nat
    BY <1>1, MessageTypes
  <1>3. ToDo \in Nat
    BY <1>2 DEF IInv, Finished, ToDo
  <1>4. CHAIN_DEPTH \in Nat /\ depth \in 0..CHAIN_DEPTH
    BY <1>1, MessagesAssumption DEF TypeOK
  <1>5. Turns \in Nat /\ Turns = CHAIN_DEPTH + 3
    BY <1>4 DEF Turns
  <1>6. /\ Turns * ToDo \in Nat
        /\ ToDo > 0 => /\ Turns * (ToDo - 1) \in Nat
                       /\ Turns * ToDo = Turns * (ToDo - 1) + Turns
    BY <1>3, <1>5, OneInstructionLess
  <1>7. pc = "chain" => ToDo > 0
    BY <1>2, <1>3 DEF IInv, Current, ToDo
  <1>8. pc = "accounts" => Len(accounts) <= Len(msg.keys)
    BY DEF IInv, Phases
  <1> QED
    BY <1>2, <1>3, <1>4, <1>5, <1>6, <1>7, <1>8

(* Until it returns, the call has a step left. *)
LEMMA VariantType ==
  ASSUME IInv
  PROVE  Variant \in Nat /\ (pc # "done" => Variant > 0)
  <1> DEFINE W == Turns * ToDo
             V == Turns * (ToDo - 1)
  <1>1. /\ W \in Nat
        /\ pc = "chain" => V \in Nat
        /\ Len(msg.keys) \in Nat /\ Len(accounts) \in Nat
        /\ pc = "accounts" => Len(accounts) <= Len(msg.keys)
        /\ CHAIN_DEPTH \in Nat /\ depth \in 0..CHAIN_DEPTH
    BY StepsLeft
  <1>2. pc \in {"accounts", "instructions", "chain", "done"}
    BY DEF IInv, TypeOK
  <1>3. /\ pc = "accounts" =>
             Variant = Len(msg.keys) - Len(accounts) + 2 + W
        /\ pc = "instructions" => Variant = 1 + W
        /\ pc = "chain" => Variant = 2 + (CHAIN_DEPTH - depth) + V
        /\ pc = "done" => Variant = 0
    BY DEF Variant
  <1> HIDE DEF V, W
  <1> QED
    BY <1>1, <1>2, <1>3

(* Every step of the call brings its end nearer. *)
LEMMA StepProgress ==
  ASSUME IInv, Step
  PROVE  Variant \in Nat /\ Variant' \in 0..(Variant - 1)
  <1> DEFINE K == Len(msg.keys)
             A == Len(accounts)
             W == Turns * ToDo
             V == Turns * (ToDo - 1)
  <1>1. /\ K \in Nat /\ A \in Nat /\ ToDo \in Nat
        /\ Turns \in Nat /\ Turns = CHAIN_DEPTH + 3
        /\ CHAIN_DEPTH \in Nat /\ depth \in 0..CHAIN_DEPTH
        /\ W \in Nat
    BY StepsLeft
  <1>2. ToDo > 0 => V \in Nat /\ W = V + Turns
    BY StepsLeft
  <1>3. pc = "chain" => ToDo > 0
    BY StepsLeft
  <1>4. pc = "accounts" => A <= K
    BY StepsLeft
  <1>5. /\ pc = "accounts" => Variant = K - A + 2 + W
        /\ pc = "instructions" => Variant = 1 + W
        /\ pc = "chain" => Variant = 2 + (CHAIN_DEPTH - depth) + V
    BY DEF Variant
  <1>6. pc' = "done" => Variant' = 0
    BY DEF Variant
  <1> HIDE DEF V, W
  <1>7. pc # "done" => Variant \in Nat /\ Variant > 0
    BY VariantType
  <1>8. CASE LoadAccount
    <2>1. pc = "accounts" /\ UNCHANGED <<msg, program_indices>>
      BY <1>8 DEF LoadAccount
    <2>2. CASE pc' = "done"
      BY <1>6, <1>7, <2>1, <2>2
    <2>3. CASE UNCHANGED pc /\ \E key, owner : accounts' = Append(accounts, Entry(key, owner))
      <3>1. Len(accounts') = A + 1 /\ A + 1 <= K
        BY <1>1, <1>8, <2>3, MessageTypes DEF LoadAccount, IInv
      <3>2. ToDo' = ToDo
        BY <2>1 DEF ToDo
      <3>3. Variant' = K - (A + 1) + 2 + W
        BY <2>1, <2>3, <3>1, <3>2 DEF Variant, Turns, W
      <3> QED
        BY <1>1, <1>5, <2>1, <3>1, <3>3
    <2> QED
      BY <1>8, <2>2, <2>3 DEF LoadAccount, Return
  <1>9. CASE AccountsLoaded
    <2>1. pc = "accounts" /\ pc' = "instructions" /\ ToDo' = ToDo
      BY <1>9 DEF AccountsLoaded, ToDo
    <2>2. Variant' = 1 + W
      BY <2>1 DEF Variant, Turns, W
    <2> QED
      BY <1>1, <1>4, <1>5, <2>1, <2>2
  <1>10. CASE StartChain
    <2>1. /\ pc = "instructions" /\ pc' = "chain" /\ ToDo' = ToDo
          /\ depth' = 0 /\ ToDo > 0
      BY <1>1, <1>10, MessageTypes DEF StartChain, ToDo, IInv
    <2>2. Variant' = 2 + CHAIN_DEPTH + V
      BY <1>1, <2>1 DEF Variant, Turns, V
    <2> QED
      BY <1>1, <1>2, <1>5, <2>1, <2>2
  <1>11. ASSUME NEW i, pc = "chain", UNCHANGED msg, TurnsLeft, Follow(i)
         PROVE  Variant \in Nat /\ Variant' \in 0..(Variant - 1)
    <2>1. pc' = "chain" /\ ToDo' = ToDo /\ depth' = depth + 1
      BY <1>11 DEF Follow, ToDo
    <2>2. Variant' = 2 + (CHAIN_DEPTH - (depth + 1)) + V
      BY <1>11, <2>1 DEF Variant, Turns, V
    <2> QED
      BY <1>1, <1>2, <1>3, <1>5, <1>11, <2>2 DEF TurnsLeft
  <1>12. ASSUME NEW c, pc = "chain", UNCHANGED msg, FinishChain(c)
         PROVE  Variant \in Nat /\ Variant' \in 0..(Variant - 1)
    <2>1. pc' = "instructions" /\ ToDo' = ToDo - 1
      <3>1. program_indices \in Seq(Seq(Nat)) /\ Len(program_indices) \in Nat
              /\ Len(msg.programs) \in Nat
        BY MessageTypes DEF IInv, TypeOK
      <3>2. Len(program_indices') = Len(program_indices) + 1
        BY <1>12, <3>1 DEF FinishChain
      <3> QED
        BY <1>12, <3>1, <3>2 DEF FinishChain, ToDo
    <2>2. Variant' = 1 + V
      BY <2>1 DEF Variant, Turns, V
    <2> QED
      BY <1>1, <1>2, <1>3, <1>5, <1>12, <2>2
  <1>13. ASSUME NEW r, pc = "chain", Fail(r)
         PROVE  Variant \in Nat /\ Variant' \in 0..(Variant - 1)
    BY <1>6, <1>7, <1>13 DEF Fail, Return
  <1>14. CASE ChainStep
    BY <1>11, <1>12, <1>13, <1>14 DEF ChainStep
  <1>15. CASE TooDeep
    BY <1>13, <1>15 DEF TooDeep
  <1>16. CASE Finish
    BY <1>6, <1>7, <1>16 DEF Finish, Return
  <1> QED
    BY <1>8, <1>9, <1>10, <1>14, <1>15, <1>16 DEF Step

(* The call takes at most as many steps as Variant says when it begins,    *)
(* which depends on the numbers of accounts and instructions alone: owners *)
(* that form a circle, or answers that change, cannot make it longer.      *)
THEOREM LoaderProgress == Spec => Progress
  <1>1. IInv /\ [Next]_vars => [Less]_vars
    BY StepProgress DEF Next, Returned, Less
  <1> QED
    BY <1>1, Invariance, PTL DEF Spec, Progress
=============================================================================

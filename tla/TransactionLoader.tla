-------------------------- MODULE TransactionLoader --------------------------
(***************************************************************************)
(* AccountLoader::load_transaction_accounts: the accounts a message names  *)
(* are loaded in order, then, for each instruction, the chain of loaders   *)
(* from its program up to an account that the native loader owns.  Loaders *)
(* are appended to the accounts, and the chain is a vector of indices into *)
(* them, outermost loader first.                                           *)
(*                                                                         *)
(* An account is abstracted to its owner.  The closure `g' that fetches    *)
(* accounts is the caller's, an FnMut: it may answer the same key          *)
(* differently each time, or not at all.                                   *)
(*                                                                         *)
(* Indices are the code's, from 0.                                         *)
(***************************************************************************)
EXTENDS Naturals, Sequences, FiniteSets

CONSTANTS
  Keys,                 \* the pubkeys
  NativeLoader,         \* native_loader::id()
  InstructionsSysvar,   \* sysvar::instructions::id()
  SysvarProgram,        \* sysvar::id()
  Messages,             \* messages: account_keys, and program_id_index of
                        \* each instruction
  CHAIN_DEPTH           \* 5: the longest chain followed

ASSUME KeysAssumption ==
  {NativeLoader, InstructionsSysvar, SysvarProgram} \subseteq Keys
ASSUME MessagesAssumption ==
  /\ Messages \subseteq [keys : Seq(Keys), programs : Seq(Nat)]
  /\ CHAIN_DEPTH \in Nat \ {0}

VARIABLES
  msg,                    \* the message
  pc,                     \* where the call is
  accounts,               \* Vec<(Pubkey, AccountSharedData)>
  builtins_start_index,
  program_indices,        \* the finished chains
  account_indices,        \* the chain being followed
  program_index,          \* its next account
  depth,                  \* turns of the inner loop taken
  result                  \* "none", "ok" or the error

vars == <<msg, pc, accounts, builtins_start_index, program_indices,
          account_indices, program_index, depth, result>>

Results == {"none", "ok", "AccountNotFound", "ProgramAccountNotFound",
            "CallChainTooDeep"}

Init ==
  /\ msg \in Messages
  /\ pc = "accounts"
  /\ accounts = <<>>
  /\ builtins_start_index = 0
  /\ program_indices = <<>>
  /\ account_indices = <<>>
  /\ program_index = 0
  /\ depth = 0
  /\ result = "none"

Return(r) == pc' = "done" /\ result' = r

Entry(key, owner) == [key |-> key, owner |-> owner]

(* One turn of the loop over account_keys.  The instructions sysvar is     *)
(* made from the message, not fetched; `g' answers some account, whatever  *)
(* its owner, or none.                                                     *)
LoadAccount ==
  LET key == msg.keys[Len(accounts) + 1]
  IN /\ pc = "accounts"
     /\ Len(accounts) < Len(msg.keys)
     /\ \/ /\ key = InstructionsSysvar
           /\ accounts' = Append(accounts, Entry(key, SysvarProgram))
           /\ UNCHANGED <<pc, result>>
        \/ /\ key # InstructionsSysvar
           /\ \E owner \in Keys :
                accounts' = Append(accounts, Entry(key, owner))
           /\ UNCHANGED <<pc, result>>
        \/ /\ key # InstructionsSysvar
           /\ Return("AccountNotFound")
           /\ UNCHANGED accounts
     /\ UNCHANGED <<msg, builtins_start_index, program_indices,
                    account_indices, program_index, depth>>

AccountsLoaded ==
  /\ pc = "accounts"
  /\ Len(accounts) = Len(msg.keys)
  /\ builtins_start_index' = Len(accounts)
  /\ pc' = "instructions"
  /\ UNCHANGED <<msg, accounts, program_indices, account_indices,
                 program_index, depth, result>>

---------------------------------------------------------------------------

(* The head of the loop over the instructions. *)
StartChain ==
  /\ pc = "instructions"
  /\ Len(program_indices) < Len(msg.programs)
  /\ account_indices' = <<>>
  /\ program_index' = msg.programs[Len(program_indices) + 1]
  /\ depth' = 0
  /\ pc' = "chain"
  /\ UNCHANGED <<msg, accounts, builtins_start_index, program_indices, result>>

(* program_indices.push(chain), and continue 'OUTER. *)
FinishChain(chain) ==
  /\ program_indices' = Append(program_indices, chain)
  /\ pc' = "instructions"
  /\ UNCHANGED <<accounts, account_indices, program_index, depth, result>>

(* account_indices.insert(0, program_index as u16) *)
Linked_Pushed == Append(account_indices, program_index)
Linked == <<program_index>> \o account_indices

Program == accounts[program_index + 1]

(* The entries of accounts.get(builtins_start_index..) with a given key,   *)
(* and the first of them.                                                  *)
Loaded_Never(key) == {}
Loaded(key) == {i \in builtins_start_index..(Len(accounts) - 1) :
                  accounts[i + 1].key = key}
First(I) == CHOOSE i \in I : \A j \in I : i <= j

(* The turn goes on to the account at index i. *)
Follow_CountNewOnly(i) ==
  /\ IF \E k \in 1..Len(account_indices) : account_indices[k] = program_index
       THEN UNCHANGED <<account_indices, depth>>
       ELSE account_indices' = Linked /\ depth' = depth + 1
  /\ program_index' = i
  /\ UNCHANGED <<pc, program_indices, result>>
Follow(i) ==
  /\ account_indices' = Linked
  /\ program_index' = i
  /\ depth' = depth + 1
  /\ UNCHANGED <<pc, program_indices, result>>

(* accounts.push of the owner's account. *)
Pushed_Front(e) == <<e>> \o accounts
Pushed(e) == Append(accounts, e)

(* An error is returned; the locals, here left as they are, are dropped. *)
Fail(r) ==
  /\ Return(r)
  /\ UNCHANGED <<accounts, program_indices, account_indices, program_index,
                 depth>>

(* One turn of `for _ in 0..5'. *)
TurnsLeft_OneMore == depth <= CHAIN_DEPTH
TurnsLeft_OneFewer == depth + 1 < CHAIN_DEPTH
TurnsLeft == depth < CHAIN_DEPTH
ChainStep ==
  /\ pc = "chain"
  /\ TurnsLeft
  /\ \/ /\ program_index >= Len(accounts)
        /\ Fail("ProgramAccountNotFound")
     \/ /\ program_index < Len(accounts)
        /\ Program.key = NativeLoader
        /\ FinishChain(account_indices)
     \/ /\ program_index < Len(accounts)
        /\ Program.key # NativeLoader
        /\ Program.owner = NativeLoader
        /\ FinishChain(Linked)
     \/ /\ program_index < Len(accounts)
        /\ Program.key # NativeLoader
        /\ Program.owner # NativeLoader
        /\ \/ /\ Loaded(Program.owner) # {}
              /\ Follow(First(Loaded(Program.owner)))
              /\ UNCHANGED accounts
           \/ /\ Loaded(Program.owner) = {}
              /\ \E owner \in Keys :
                   accounts' = Pushed(Entry(Program.owner, owner))
              /\ Follow(Len(accounts))
           \/ /\ Loaded(Program.owner) = {}
              /\ Fail("ProgramAccountNotFound")
  /\ UNCHANGED <<msg, builtins_start_index>>

(* throw!(CallChainTooDeep) *)
TooDeep ==
  /\ pc = "chain"
  /\ ~TurnsLeft
  /\ Fail("CallChainTooDeep")
  /\ UNCHANGED <<msg, builtins_start_index>>

(* The LoadedTransaction is returned. *)
Finish ==
  /\ pc = "instructions"
  /\ Len(program_indices) = Len(msg.programs)
  /\ Return("ok")
  /\ UNCHANGED <<msg, accounts, builtins_start_index, program_indices,
                 account_indices, program_index, depth>>

Step ==
  \/ LoadAccount \/ AccountsLoaded
  \/ StartChain \/ ChainStep \/ TooDeep \/ Finish

(* The call has returned: nothing is left to do. *)
Returned == pc = "done" /\ UNCHANGED vars

Next == Step \/ Returned

(* One thread runs the call, and `g' returns. *)
Spec == Init /\ [][Next]_vars /\ WF_vars(Step)

---------------------------------------------------------------------------

(* Type invariant; the inner loop takes at most CHAIN_DEPTH turns. *)
TypeOK ==
  /\ msg \in Messages
  /\ pc \in {"accounts", "instructions", "chain", "done"}
  /\ accounts \in Seq([key : Keys, owner : Keys])
  /\ builtins_start_index \in Nat
  /\ program_indices \in Seq(Seq(Nat))
  /\ account_indices \in Seq(Nat)
  /\ program_index \in Nat
  /\ depth \in 0..CHAIN_DEPTH
  /\ result \in Results

(* The accounts of the message stay where the message has them, whatever   *)
(* loaders are added: an instruction's account indices, and the pairing of *)
(* keys with data in `process', rest on it.                                *)
MessageAccountsFirst ==
  \A i \in 1..Len(accounts) :
    i <= Len(msg.keys) => accounts[i].key = msg.keys[i]

(* A loader is appended once for all the instructions that need it, and    *)
(* the native loader never is.                                             *)
LoadersOnce ==
  \A i, j \in (Len(msg.keys) + 1)..Len(accounts) :
    /\ accounts[i].key = accounts[j].key => i = j
    /\ accounts[i].key # NativeLoader

(* Each account of a chain is owned by the one before it. *)
Owns(chain) ==
  \A k \in 1..Len(chain) :
    /\ chain[k] < Len(accounts)
    /\ k > 1 => /\ accounts[chain[k] + 1].owner
                      = accounts[chain[k - 1] + 1].key
                /\ chain[k - 1] >= Len(msg.keys)

(* The chain stored for an instruction leads from an account that the      *)
(* native loader owns, through loaders that own each other, to the         *)
(* instruction's program; it is empty if the program is the native loader  *)
(* itself.  Loaders appended for later instructions do not disturb it.     *)
ChainsFollowOwners ==
  \A n \in 1..Len(program_indices) :
    LET chain == program_indices[n]
        p == msg.programs[n]
    IN \/ chain = <<>> /\ accounts[p + 1].key = NativeLoader
       \/ /\ Len(chain) \in 1..CHAIN_DEPTH
          /\ chain[Len(chain)] = p
          /\ Owns(chain)
          /\ accounts[chain[1] + 1].owner = NativeLoader

(* CallChainTooDeep is the answer only to a chain of CHAIN_DEPTH accounts, *)
(* none of them owned by the native loader.                                *)
TooDeepOnlyIfDeep ==
  result = "CallChainTooDeep" =>
    /\ Len(account_indices) = CHAIN_DEPTH
    /\ Owns(account_indices)
    /\ \A k \in 1..CHAIN_DEPTH :
         accounts[account_indices[k] + 1].owner # NativeLoader

(* The call returns, also when accounts own each other in a circle. *)
Returns == <>(pc = "done")
=============================================================================

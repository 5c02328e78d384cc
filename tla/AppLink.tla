------------------------------- MODULE AppLink -------------------------------
(* The tablet's link to its backend: the connection store's list and       *)
(* selection, and the hook that keeps one SDK client for the selected      *)
(* backend.                                                                *)
(*                                                                         *)
(* Effects run after a render, so several changes of the store may lie     *)
(* between two runs; a handshake may end after its effect was cleaned up.  *)
EXTENDS Naturals, Sequences

CONSTANTS
  Backends,     \* paired servers, each with its URL
  NoBackend,    \* currentBackendId = null, none of Backends
  MaxClients    \* bound: clients constructed in one run of the app

ASSUME NoneIsNoBackend == NoBackend \notin Backends

VARIABLES
  listed,    \* pairedBackends
  current,   \* currentBackendId
  leaving,   \* removals that await the secure store, and whether the row was
             \* that of the current backend when its menu was used
  deps,      \* the backend of the last run of the hook's effect
  eff,       \* the client that run made, 0 if it made none
  client,    \* every client made: its backend and what became of it
  shown,     \* the client the hook returns, 0 for null
  link       \* connectionStatus

store  == <<listed, current, leaving>>
hook   == <<deps, eff, client, shown>>
device == <<listed, current, leaving, deps, eff, client, shown, link>>

Clients == 1..Len(client)

DeviceTypeOK ==
  /\ listed \subseteq Backends
  /\ current \in Backends \cup {NoBackend} /\ deps \in Backends \cup {NoBackend}
  /\ leaving \in [Backends -> {"no", "other", "current"}]
  /\ client \in Seq([of : Backends, is : {"connecting", "open", "failed", "disposed", "stray"}])
  /\ {eff, shown} \subseteq 0..Len(client)
  /\ link \in {"disconnected", "connecting", "connected", "error"}

\* The persisted slice of an earlier run: the list and the selection.
DeviceInit ==
  /\ listed \in SUBSET Backends /\ current \in listed \cup {NoBackend}
  /\ leaving = [b \in Backends |-> "no"]
  /\ deps = NoBackend /\ eff = 0 /\ client = <<>> /\ shown = 0
  /\ link = "disconnected"

\* The backend the effect's dependencies name: no URL, no client.
Wanted == IF current \in listed THEN current ELSE NoBackend

-----------------------------------------------------------------------------
(* The screens and the store.                                              *)

(* The token is stored, the backend listed and selected; when the secure   *)
(* store rejects the screen tells and nothing changes.                     *)
CompletePairing(b) ==
  /\ leaving[b] = "no"
  /\ listed' = listed \cup {b} /\ current' = b
  /\ UNCHANGED <<leaving, hook, link>>

RevokeAction(b) ==
  /\ b \in listed /\ leaving[b] = "no"
  /\ leaving' = [leaving EXCEPT ![b] = IF current = b THEN "current" ELSE "other"]
  /\ UNCHANGED <<listed, current, hook, link>>

(* The screen clears the selection by what it had rendered, whatever is    *)
(* selected by now.                                                        *)
RemoveBackend(b) ==
  /\ leaving[b] # "no"
  /\ listed' = listed \ {b}
  /\ current' = IF current = b \/ leaving[b] = "current" THEN NoBackend ELSE current
  /\ leaving' = [leaving EXCEPT ![b] = "no"]
  /\ UNCHANGED <<hook, link>>

\* deleteItemAsync rejects: the backend stays.
RemoveFails(b) ==
  /\ leaving[b] # "no"
  /\ leaving' = [leaving EXCEPT ![b] = "no"]
  /\ UNCHANGED <<listed, current, hook, link>>

-----------------------------------------------------------------------------
(* useDiffuseCraftClient.                                                  *)

(* Cleanup disposes the client of the run before.  One that is connecting  *)
(* goes on: dispose() cannot stop a handshake, and marks the client so     *)
(* that no later dispose() does anything.                                  *)
CleanedUp ==
  [c \in Clients |-> IF c = eff /\ client[c].is # "connecting"
                     THEN [client[c] EXCEPT !.is = "disposed"] ELSE client[c]]

EffectRuns ==
  /\ deps # Wanted
  /\ deps' = Wanted
  /\ IF Wanted = NoBackend
     THEN /\ client' = CleanedUp /\ eff' = 0 /\ shown' = 0
          /\ UNCHANGED link
     ELSE /\ Len(client) < MaxClients
          /\ client' = Append(CleanedUp, [of |-> Wanted, is |-> "connecting"])
          /\ eff' = Len(client) + 1 /\ link' = "connecting"
          /\ UNCHANGED shown
  /\ UNCHANGED store

Turns(c, what) == client' = [client EXCEPT ![c].is = what]

(* Mutant of Connects: nobody asks whether the effect was cleaned up.      *)
ConnectsLate(c) ==
  /\ client[c].is = "connecting"
  /\ Turns(c, "open")
  /\ link' = "connected" /\ shown' = c
  /\ UNCHANGED <<store, deps, eff>>

(* A handshake that ends after the cleanup changes nothing the app shows;  *)
(* its client stays connected, for it was disposed of while connecting.    *)
Connects(c) ==
  /\ client[c].is = "connecting"
  /\ IF c = eff
     THEN /\ Turns(c, "open")
          /\ link' = "connected" /\ shown' = c
     ELSE /\ Turns(c, "stray")
          /\ UNCHANGED <<link, shown>>
  /\ UNCHANGED <<store, deps, eff>>

ConnectFails(c) ==
  /\ client[c].is = "connecting"
  /\ Turns(c, "failed")
  /\ IF c = eff
     THEN link' = "error" /\ shown' = 0
     ELSE UNCHANGED <<link, shown>>
  /\ UNCHANGED <<store, deps, eff>>

DeviceNext ==
  \/ \E b \in Backends : \/ CompletePairing(b) \/ RevokeAction(b)
                         \/ RemoveBackend(b) \/ RemoveFails(b)
  \/ EffectRuns
  \/ \E c \in Clients : Connects(c) \/ ConnectFails(c)

DeviceSpec == DeviceInit /\ [][DeviceNext]_device

-----------------------------------------------------------------------------
(* Properties.                                                             *)

(* What routerStatus is derived from can be trusted: once the effect has   *)
(* caught up with the selection, "connected" means that the client shown   *)
(* is the selected backend's and open, in whatever order handshakes of     *)
(* this client and of earlier ones end.                                    *)
LinkTells ==
  deps = Wanted /\ current # NoBackend /\ link = "connected" =>
    /\ shown # 0 /\ shown = eff
    /\ client[shown] = [of |-> current, is |-> "open"]
=============================================================================

------------------------------ MODULE MC_Owners ------------------------------
(* Instance for TLC of the three owners of something that has to be        *)
(* stopped.  A behaviour has the supervisor of ComfyUI with the socket and *)
(* the monitor (ComfyHost), the server that is started and stopped         *)
(* (Lifecycle), or the tablet and its SDK clients (AppLink).               *)
EXTENDS ComfyHost, Lifecycle, AppLink

VARIABLE side

comfyui == vars

NoComfy  == Init /\ owner = "anytime"
NoServer == ServerInit /\ runner = "host" /\ mount = {}
NoDevice == DeviceInit /\ listed = {}

OwnersInit ==
  \/ side = "comfyui" /\ Init       /\ NoServer /\ NoDevice
  \/ side = "server"  /\ ServerInit /\ NoComfy  /\ NoDevice
  \/ side = "device"  /\ DeviceInit /\ NoComfy  /\ NoServer

OwnersNext ==
  \/ side = "comfyui" /\ Next       /\ UNCHANGED <<side, server, device>>
  \/ side = "server"  /\ ServerNext /\ UNCHANGED <<side, comfyui, device>>
  \/ side = "device"  /\ DeviceNext /\ UNCHANGED <<side, comfyui, server>>

\* Nothing that fairness is asked of is ever enabled on a side not taken.
OwnersSpec ==
  /\ OwnersInit /\ [][OwnersNext]_<<side, comfyui, server, device>>
  /\ Fairness /\ ServerFairness
=============================================================================

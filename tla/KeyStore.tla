------------------------------- MODULE KeyStore -------------------------------
(***************************************************************************)
(* What a host promises about its HPKE key and its Proxmox credentials,    *)
(* whichever processes write config.yml and wherever they die: one key is  *)
(* generated where there is none, what is uploaded is the public half of   *)
(* the key the host holds, only --rotate-key replaces that key, and        *)
(* neither the key nor the credentials are ever lost.                      *)
(*                                                                         *)
(* Two things end a promise. After a --rotate-key an agent that has not    *)
(* restarted may upload the key before; and once a process has written     *)
(* over what another was writing nothing is promised any more.             *)
(***************************************************************************)
EXTENDS Naturals

VARIABLES
  keys,       \* pairs generated so far, numbered from 1
  key,        \* the pair whose private half the host holds, 0 without
  published,  \* the pair whose public half the server has, 0 without
  pve,        \* the host holds credentials for Proxmox
  rotated,    \* a --rotate-key has taken place
  spoiled     \* a process has written over what another was writing

kvars == <<keys, key, published, pve, rotated, spoiled>>

KInit == /\ keys = 0 /\ key = 0 /\ published = 0
         /\ pve \in BOOLEAN
         /\ rotated = FALSE /\ spoiled = FALSE

Generate == /\ key = 0
            /\ keys' = keys + 1
            /\ key' = keys'
            /\ UNCHANGED <<published, pve, rotated, spoiled>>

Rotate == /\ keys' = keys + 1
          /\ key' = keys'
          /\ rotated' = TRUE
          /\ UNCHANGED <<published, pve, spoiled>>

Publish == /\ published' \in 1 .. keys
           /\ rotated \/ published' = key
           /\ UNCHANGED <<keys, key, pve, rotated, spoiled>>

Configure == /\ pve' = TRUE
             /\ UNCHANGED <<keys, key, published, rotated, spoiled>>

Spoil == spoiled' = TRUE

KNext == Generate \/ Rotate \/ Publish \/ Configure \/ Spoil

KSpec == KInit /\ [][KNext]_kvars
===============================================================================

---------------------------- MODULE CryptoModule ----------------------------
(***************************************************************************)
(* The guest's crypto module (crypto-module.c) and what it registers: the  *)
(* character device, and a driver that the virtio bus offers its devices   *)
(* to.  A device is probed and put on the list that open looks it up in,   *)
(* and taken off the list and freed; the module is loaded and unloaded.    *)
(* The calls on one of the devices are those of VirtioCrypto.  What a      *)
(* probe does before the device is on the list, and a removal after, is    *)
(* seen by nobody else: each is one step.                                  *)
(*                                                                         *)
(* External: a device can be plugged in, unplugged, bound and unbound at   *)
(* any time the driver is registered, whatever is open on it; a module is  *)
(* removed only without open files.  Nothing is modelled once a device has *)
(* been freed under an open file, nor is a file opened before the list is  *)
(* initialised: the code has no answer to either.                          *)
(***************************************************************************)
EXTENDS VirtioCrypto

CONSTANTS
    Devices,            \* virtio devices of this driver
    Device,             \* the one whose calls are followed
    CRYPTO_NR_DEVICES,  \* device numbers of the character device
    MaxMinor            \* bound: device numbers given out by one load

ASSUME CryptoModuleAssumption ==
    /\ Device \in Devices
    /\ CRYPTO_NR_DEVICES \in Nat
    /\ MaxMinor \in Nat

VARIABLES
    mod,            \* what init or fini does next
    region, cdev,   \* the device numbers and the device are registered
    devs,           \* crdrvdata.devs, the devices on the list
    minor,          \* their numbers
    next_minor      \* crdrvdata.next_minor

chrdev == <<region, cdev>>
crdrvdata == <<devs, minor, next_minor>>
modVars == <<mod, chrdev, crdrvdata>>
allVars == <<vars, modVars>>

NoMinor == -1
FilesOpen == InUse(state)

ModuleInit ==
    /\ Init
    /\ mod = "absent" /\ region = FALSE /\ cdev = FALSE
    /\ devs = {} /\ minor = [d \in Devices |-> NoMinor] /\ next_minor = 0

-----------------------------------------------------------------------------
(* init and fini *)

\* The module's data is new.
Insmod ==
    /\ mod = "absent"
    /\ mod' = "region"
    /\ next_minor' = 0
    /\ UNCHANGED <<chrdev, devs, minor>>

\* crypto_chrdev_init
RegisterRegion ==
    /\ mod = "region"
    /\ \/ region' = TRUE /\ mod' = "cdev"
       \/ mod' = "absent" /\ UNCHANGED region
    /\ UNCHANGED <<cdev, crdrvdata>>

AddCdev ==
    /\ mod = "cdev"
    /\ \/ cdev' = TRUE /\ mod' = "driver"
       \/ mod' = "undo_region" /\ UNCHANGED cdev
    /\ UNCHANGED <<region, crdrvdata>>

\* Mutant of RegisterDriver: a failure is returned at once.
BugRegisterDriver ==
    /\ mod = "driver"
    /\ mod' \in {"live", "absent"}
    /\ UNCHANGED <<chrdev, crdrvdata>>

\* The list is initialised and the driver registered; when that fails the
\* character device is destroyed.
RegisterDriver ==
    /\ mod = "driver"
    /\ mod' \in {"live", "undo_cdev"}
    /\ UNCHANGED <<chrdev, crdrvdata>>

Rmmod ==
    /\ mod = "live"
    /\ ~ FilesOpen
    /\ mod' = "rm_cdev"
    /\ UNCHANGED <<chrdev, crdrvdata>>

\* crypto_chrdev_destroy, and the end of a crypto_chrdev_init that failed.
DeleteCdev ==
    /\ mod \in {"rm_cdev", "undo_cdev"}
    /\ cdev' = FALSE
    /\ mod' = IF mod = "rm_cdev" THEN "rm_region" ELSE "undo_region"
    /\ UNCHANGED <<region, crdrvdata>>

UnregisterRegion ==
    /\ mod \in {"rm_region", "undo_region"}
    /\ region' = FALSE
    /\ mod' = IF mod = "rm_region" THEN "rm_driver" ELSE "absent"
    /\ UNCHANGED <<cdev, crdrvdata>>

\* unregister_virtio_driver returns when every device has been removed.
UnregisterDriver ==
    /\ mod = "rm_driver"
    /\ devs = {}
    /\ mod' = "absent"
    /\ UNCHANGED <<chrdev, crdrvdata>>

-----------------------------------------------------------------------------
(* The devices *)

\* Mutant of Probe: the number is the one after the next.
BugProbe(d) ==
    /\ mod \in {"live", "rm_cdev", "rm_region"}
    /\ d \notin devs /\ next_minor < MaxMinor
    /\ minor' = [minor EXCEPT ![d] = next_minor + 1]
    /\ next_minor' = next_minor + 1
    /\ devs' = devs \cup {d}
    /\ UNCHANGED <<mod, chrdev>>

\* virtcons_probe: "Grab the next minor number and put the device in the
\* driver's list."  A probe that fails changes nothing.
Probe(d) ==
    /\ mod \in {"live", "rm_cdev", "rm_region"}
    /\ d \notin devs /\ next_minor < MaxMinor
    /\ minor' = [minor EXCEPT ![d] = next_minor]
    /\ next_minor' = next_minor + 1
    /\ devs' = devs \cup {d}
    /\ UNCHANGED <<mod, chrdev>>

\* Mutant of Remove: the number is given back.
BugRemove(d) ==
    /\ d \in devs
    /\ devs' = devs \ {d}
    /\ minor' = [minor EXCEPT ![d] = NoMinor]
    /\ next_minor' = next_minor - 1
    /\ UNCHANGED <<mod, chrdev>>
    /\ IF d = Device /\ FilesOpen THEN Free ELSE UNCHANGED vars

\* virtcons_remove, of a device that is unplugged, or of each one when the
\* driver is unregistered.  Whether a file is open on it is not looked at.
Remove(d) ==
    /\ d \in devs
    /\ devs' = devs \ {d}
    /\ minor' = [minor EXCEPT ![d] = NoMinor]
    /\ UNCHANGED <<mod, chrdev, next_minor>>
    /\ IF d = Device /\ FilesOpen THEN Free ELSE UNCHANGED vars

-----------------------------------------------------------------------------
(* The calls *)

\* open: the kernel finds the character device by a number in its range, and
\* get_crypto_dev_by_minor the device on the list that has it.
Reached(k) ==
    k.kind = "open" =>
        /\ cdev /\ mod = "live"
        /\ Device \in devs /\ minor[Device] < CRYPTO_NR_DEVICES

CallStep == Proceed \/ \E c \in Procs, k \in Call : Reached(k) /\ Prepare(c, k)

LoadStep ==
    \/ Insmod \/ RegisterRegion \/ AddCdev \/ RegisterDriver
    \/ Rmmod \/ DeleteCdev \/ UnregisterRegion \/ UnregisterDriver
    \/ \E d \in Devices : Probe(d)

\* The last disjunct is all that is said of a guest whose device was freed while
\* it was in use.
ModuleNext ==
    \/ There(CallStep) /\ UNCHANGED modVars
    \/ There(LoadStep /\ UNCHANGED vars)
    \/ ~ freed /\ \E d \in Devices : Remove(d)
    \/ freed /\ UNCHANGED allVars

ModuleSpec == ModuleInit /\ [][ModuleNext]_allVars /\ Fairness

-----------------------------------------------------------------------------
(* Properties *)

ModuleTypeOK ==
    /\ mod \in {"absent", "region", "cdev", "driver", "live", "undo_cdev",
                "undo_region", "rm_cdev", "rm_region", "rm_driver"}
    /\ region \in BOOLEAN /\ cdev \in BOOLEAN
    /\ devs \subseteq Devices
    /\ minor \in [Devices -> NoMinor .. MaxMinor - 1]
    /\ next_minor \in 0 .. MaxMinor

\* "Given the minor number of the inode return the crypto device that owns that
\* number": one device owns it, in whatever order devices come and go, and it
\* will not be given to another.
MinorsUnique ==
    /\ \A d \in devs : minor[d] \in 0 .. next_minor - 1
    /\ \A d, e \in devs : minor[d] = minor[e] => d = e

\* "Make sure to cleanup everything": a module that is gone, or could not be
\* loaded, has left nothing registered, no device on its list, and nothing open
\* on the host, however calls and devices came and went.
NothingLeft ==
    mod = "absent" =>
        ~ region /\ ~ cdev /\ devs = {} /\ host.fds = {} /\ host.sessions = {}

=============================================================================

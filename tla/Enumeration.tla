----------------------------- MODULE Enumeration -----------------------------
(***************************************************************************)
(* UsbContext::devices and UsbContext::open: each backend takes a snapshot *)
(* of the device list from the system and then asks about one entry after  *)
(* the other, while devices come and go; open is given the path of an      *)
(* entry later and looks the device up again.                              *)
(*                                                                         *)
(* A device is attached to a port under an address, a pair of a bus and a  *)
(* number on it; the number is given out when it is attached and may have  *)
(* been another device's before.  What names a device in the snapshot      *)
(* differs: a sysfs path is of a port, an IOKit service and a WinUSB       *)
(* device interface are of a device on a port.                             *)
(***************************************************************************)
EXTENDS Integers, Sequences

CONSTANTS
    Ports, Devices,
    Addresses,      \* pairs of a bus and a number
    Unnumbered,     \* devices without a bus number for their IOKit service,
                    \* or without a location in the Windows registry
    Bare,           \* devices the system tells too little of to be listed
    Nothing         \* a port without a device, a call without a result

VARIABLES
    platform,       \* "windows", "linux" or "macos"
    port,           \* what is attached: [device, address] or Nothing
    changed,        \* ports that changed since the listing began
    stage,          \* "idle", "listing", "asking", "listed" or "failed"
    todo,           \* entries of the snapshot: [port, device, address] as of then
    current,        \* the entry asked about: [port, device, path]
    held,           \* what the system has to be given back: "list", "service"
    listed,         \* the result: a sequence of DeviceInfo with their port
    opened          \* what open returned: [device, info], or Nothing

listing == <<stage, todo, current, held, listed>>
enumVars == <<platform, port, changed, listing, opened>>

Attached == {p \in Ports : port[p] # Nothing}
InUse == {port[p].address : p \in Attached}

\* The bus and address macOS knows what is attached as.
Key(x) == IF x.device \in Unnumbered THEN <<0, x.address[2]>> ELSE x.address

\* The path of what is attached, by which open will look for it.
Path(x) == CASE platform = "linux" -> x.address
             [] platform = "macos" -> Key(x)
             [] OTHER -> x.device

\* The address Windows gives a device: hub and port of its location, zero when
\* the registry does not tell.
Location(p, d) == IF d \in Unnumbered THEN Nothing ELSE p

\* The DeviceInfo of what is attached to p, when nothing changes meanwhile.
Entry(p) ==
    [port |-> p, device |-> port[p].device, path |-> Path(port[p]),
     address |-> IF platform = "windows" THEN Location(p, port[p].device)
                                         ELSE Path(port[p])]

EnumInit ==
    /\ port \in [Ports -> {Nothing}]
    /\ changed = {}
    /\ stage = "idle"
    /\ todo = {} /\ current = Nothing /\ held = {} /\ listed = <<>>
    /\ opened = Nothing

-----------------------------------------------------------------------------
(* The bus                                                                 *)

\* A change matters once a listing has begun.
Notice(p) == changed' = IF stage = "idle" THEN changed ELSE changed \cup {p}

Plug(p, d, a) ==
    /\ port[p] = Nothing
    /\ \A q \in Attached : port[q].device # d
    /\ a \notin InUse
    /\ port' = [port EXCEPT ![p] = [device |-> d, address |-> a]]
    /\ Notice(p)
    /\ UNCHANGED <<platform, listing, opened>>

Unplug(p) ==
    /\ port[p] # Nothing
    /\ port' = [port EXCEPT ![p] = Nothing]
    /\ Notice(p)
    /\ UNCHANGED <<platform, listing, opened>>

-----------------------------------------------------------------------------
(* The listing                                                             *)

\* scan_devices, IOServiceGetMatchingServices, SetupDiGetClassDevsW.
Scan ==
    /\ stage = "idle"
    /\ stage' = "listing"
    /\ todo' = {[port |-> p, device |-> port[p].device, address |-> port[p].address] :
                    p \in Attached}
    /\ held' = {"list"}
    /\ UNCHANGED <<platform, port, changed, current, listed, opened>>

ScanFails ==
    /\ stage = "idle"
    /\ stage' = "failed"
    /\ UNCHANGED <<platform, port, changed, todo, current, held, listed, opened>>

\* The device of the snapshot is still there.
Stays(item) == port[item.port] # Nothing /\ port[item.port].device = item.device

\* The next entry is asked about.
Ask(item, path, with) ==
    /\ stage' = "asking"
    /\ current' = [port |-> item.port, device |-> item.device, path |-> path]
    /\ held' = held \cup with
    /\ UNCHANGED listed

\* The loop goes on without it.
Skip ==
    /\ stage' = "listing"
    /\ UNCHANGED <<current, held, listed>>

Take(item) ==
    /\ stage = "listing"
    /\ item \in todo
    /\ todo' = todo \ {item}
    /\ UNCHANGED <<platform, port, changed, opened>>

\* The device node is the one of whatever is on the port by now.
TakeLinux(item) ==
    /\ platform = "linux"
    /\ Take(item)
    /\ IF port[item.port] = Nothing \/ port[item.port].device \in Bare THEN Skip
       ELSE Ask(item, port[item.port].address, {})

\* A service keeps what it knows of its device when that is gone.
TakeMacOs(item) ==
    /\ platform = "macos"
    /\ Take(item)
    /\ Ask(item, Key(item), {"service"})

\* Fault: the listing ends with an entry that has no detail.
TakeWindowsOrStop(item) ==
    /\ platform = "windows"
    /\ Take(item)
    /\ IF item.device \in Bare
       THEN stage' = "listed" /\ held' = {} /\ UNCHANGED <<current, listed>>
       ELSE Ask(item, item.device, {})

\* The two calls for the detail, which fail for a device that is gone.
TakeWindows(item) ==
    /\ platform = "windows"
    /\ Take(item)
    /\ \/ (item.device \in Bare \/ ~Stays(item)) /\ Skip
       \/ item.device \notin Bare /\ Ask(item, item.device, {})

Add(info) ==
    /\ stage = "asking"
    /\ stage' = "listing"
    /\ listed' = Append(listed, info)
    /\ current' = Nothing
    /\ UNCHANGED <<platform, port, changed, todo, opened>>

\* Attributes that cannot be read are zero.
AddLinux ==
    /\ platform = "linux"
    /\ stage = "asking"
    /\ LET now == port[current.port]
       IN  Add([port |-> current.port, path |-> current.path,
                device |-> IF now = Nothing THEN Nothing ELSE now.device,
                address |-> IF now = Nothing THEN Nothing ELSE now.address])
    /\ UNCHANGED held

\* Fault: a service without a vendor or a product is not released.
AddMacOsKeeping ==
    /\ platform = "macos"
    /\ stage = "asking"
    /\ IF current.device \in Bare
       THEN /\ stage' = "listing" /\ current' = Nothing
            /\ UNCHANGED <<platform, port, changed, todo, held, listed, opened>>
       ELSE /\ Add([port |-> current.port, path |-> current.path,
                    device |-> current.device, address |-> current.path])
            /\ held' = held \ {"service"}

\* Without a vendor or a product there is no entry; the service is released
\* either way.
AddMacOs ==
    /\ platform = "macos"
    /\ stage = "asking"
    /\ IF current.device \in Bare
       THEN /\ stage' = "listing" /\ current' = Nothing
            /\ UNCHANGED <<platform, port, changed, todo, listed, opened>>
       ELSE Add([port |-> current.port, path |-> current.path,
                 device |-> current.device, address |-> current.path])
    /\ held' = held \ {"service"}

\* Vendor, product and location are in the registry, zero where they are not; the
\* strings are read over a handle of its own and may be missing.
AddWindows ==
    /\ platform = "windows"
    /\ stage = "asking"
    /\ Add([port |-> current.port, path |-> current.path, device |-> current.device,
            address |-> Location(current.port, current.device)])
    /\ UNCHANGED held

ListEnds ==
    /\ stage = "listing"
    /\ todo = {}
    /\ stage' = "listed"
    /\ held' = held \ {"list"}
    /\ UNCHANGED <<platform, port, changed, todo, current, listed, opened>>

-----------------------------------------------------------------------------
(* Opening an entry of the list                                            *)

OpenBegins == stage = "listed" /\ opened = Nothing

\* Whoever has the device node by now.
OpenLinux(info, p) ==
    /\ platform = "linux" /\ OpenBegins
    /\ p \in Attached /\ port[p].address = info.path
    /\ opened' = [device |-> port[p].device, info |-> info]
    /\ UNCHANGED <<platform, port, changed, listing>>

\* Fault: find_service_by_bus_addr compares the address only.
OpenMacOsByNumber(info, p) ==
    /\ platform = "macos" /\ OpenBegins
    /\ p \in Attached /\ Key(port[p])[2] = info.path[2]
    /\ opened' = [device |-> port[p].device, info |-> info]
    /\ UNCHANGED <<platform, port, changed, listing>>

\* The first service with the bus and the address of the path, in the order of
\* the iterator; vendor and product in the path are not looked at.
OpenMacOs(info, p) ==
    /\ platform = "macos" /\ OpenBegins
    /\ p \in Attached /\ Key(port[p]) = info.path
    /\ opened' = [device |-> port[p].device, info |-> info]
    /\ UNCHANGED <<platform, port, changed, listing>>

OpenWindows(info, p) ==
    /\ platform = "windows" /\ OpenBegins
    /\ p \in Attached /\ port[p].device = info.path
    /\ opened' = [device |-> port[p].device, info |-> info]
    /\ UNCHANGED <<platform, port, changed, listing>>

\* The handle is dropped, and so is the list.
Forget ==
    /\ stage \in {"listed", "failed"}
    /\ stage' = "idle"
    /\ listed' = <<>> /\ opened' = Nothing /\ changed' = {}
    /\ UNCHANGED <<platform, port, todo, current, held>>

-----------------------------------------------------------------------------
Infos == {listed[k] : k \in DOMAIN listed}

ListStep ==
    \/ \E item \in todo : TakeLinux(item) \/ TakeMacOs(item) \/ TakeWindows(item)
    \/ AddLinux \/ AddMacOs \/ AddWindows
    \/ ListEnds

EnumNext ==
    \/ \E p \in Ports, d \in Devices, a \in Addresses : Plug(p, d, a)
    \/ \E p \in Ports : Unplug(p)
    \/ Scan \/ ScanFails
    \/ ListStep
    \/ \E info \in Infos, p \in Ports :
           OpenLinux(info, p) \/ OpenMacOs(info, p) \/ OpenWindows(info, p)
    \/ Forget

-----------------------------------------------------------------------------
(* Properties                                                              *)

EnumTypeOK ==
    /\ \A p \in Attached : port[p].device \in Devices /\ port[p].address \in Addresses
    /\ changed \subseteq Ports
    /\ stage \in {"idle", "listing", "asking", "listed", "failed"}
    /\ \A item \in todo : item.port \in Ports /\ item.device \in Devices
    /\ held \subseteq {"list", "service"}

\* Devices that a listing may be expected to show: those whose port has not
\* changed since it began.
Steady == {p \in Attached : p \notin changed /\ port[p].device \notin Bare}

\* devices() (windows.rs:145, linux.rs:335, macos.rs:238) lists every device
\* that stayed where it was once, as it is, whatever came and went on other
\* ports or could not be described; and an entry that mixes two devices or is
\* of a device that left is of a port that changed.
ListingExact ==
    stage = "listed" =>
        /\ \A p \in Steady : Entry(p) \in Infos
        /\ \A j, k \in DOMAIN listed : listed[j].port = listed[k].port => j = k
        /\ \A info \in Infos : info.port \notin changed => info.port \in Steady /\ info = Entry(info.port)

\* macOS: something else answers to the path of p as well.
Ambiguous(p) ==
    platform = "macos" /\ \E q \in Attached \ {p} : Key(port[q]) = Key(port[p])

\* The path of an entry opens the device of the entry, unless its port changed
\* since (macos.rs:293, context.rs:28) or, on macOS, two devices share a bus
\* number and an address.
OpenReachesListed ==
    [][opened' # opened /\ opened' # Nothing =>
           LET info == opened'.info
           IN  info.port \in changed \/ opened'.device = info.device \/ Ambiguous(info.port)]_enumVars

\* A listing gives back the list and every service it was handed.
NothingHeldBetweenListings ==
    /\ stage \in {"idle", "listed", "failed"} => held = {}
    /\ stage = "listing" => held = {"list"}
=============================================================================

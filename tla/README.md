# A verification of the 5x5 keyboard firmware

5x5 is the firmware of a small USB keyboard on an STM32F103: a key matrix, two
HID keyboard reports, mouse and extra key reports, macros, a configuration in
flash and a serial port that takes commands. This directory holds TLA+ models
of it, the TLC configurations that check them, and proofs about them for the
TLA+ proof system. Paths below are relative to the repository.

- [The system](#the-system)
- [Modules](#modules)
- [What the runs check](#what-the-runs-check)
- [What is proved](#what-is-proved)
- [Disagreements found](#disagreements-found)
- [What is left out](#what-is-left-out)
- [Plan](#plan)

## The system

There are three actors. They share memory without a lock; interrupts are
disabled in one place only, while `flash_read_config` copies a configuration
(`flash.c:146`).

- **The main loop** (`5x5.c`, `main`): after an enumeration window it calls
  `matrix_process`, `macro_run`, `automouse_repeat` and `serial_out` (among
  others) for ever.
- **The USB interrupt** (`usb_lp_can_rx0_isr` -> `usbd_poll`): everything the
  USB library calls back runs here: the reset callback, `usb_set_config`,
  control requests, `usb_endpoint_idle`, serial input and with it
  `command_process`, which changes the keymap, the macros, the mode and the
  configuration in flash.
- **SysTick** (`sys_tick_handler`): counts milliseconds.

| component | state | operations | used by |
|---|---|---|---|
| matrix (`matrix.c`, `clock.c`) | `matrix`, `matrix_debounce`, `matrix_previous`, `matrix_update`, one timer | `matrix_process` = scan, take, one `keymap_event` per changed switch | main loop |
| keymap (`keymap.c`) | `keymap[layer][row][col]`, `layer` | `keymap_event`; `keymap_set` | matrix; command K, flash |
| keyboard (`keyboard.c`) | boot report, NKRO report, mode, dirty flags | `keyboard_event`; `keyboard_set_protocol` | keymap and macros; commands n, N and SET_PROTOCOL |
| USB endpoints (`usb.c`) | an idle flag per endpoint, the peripheral's packet | `usb_update_*`, `usb_write_packet`; `usb_endpoint_idle`, `usb_set_config` | keyboard, mouse, extrakey; interrupt |
| configuration (`flash.c`) | pages of user flash, a CRC | `flash_write_config`, `flash_clear_config`, `flash_read_config` | commands W, Z, R; `main` |
| macros (`macro.c`) | phrases and lengths; number, position and completion of the one that runs | `macro_event`, `macro_run`; `macro_set_phrase`, `macro_init` | keymap, main loop; commands M, m |
| serial and log (`serial.c`, `ring.c`, `elog.c`) | two rings, `serial_active`, an idle flag | `printf`, `printfnl`, `serial_out`; `serial_in` | everything that logs; interrupt |
| commands (`command.c`) | the input ring | `command_process` | serial input |
| enumeration (`5x5.c`, `usb.c`) | `enumeration_active`, `usb_ifs_enumerated`, a timer | the window after a reset | main loop and interrupt |
| mouse, automouse, extrakey, LEDs | a report for mouse and automouse, one for extra keys, the automouse timer, three LEDs | events; `automouse_repeat`; `led_state`, `led_clear` | keymap, main loop; host, macros |

What is hard here, and why a test would hardly reach it:

- **The interrupt comes between any two steps of the main loop.** It changes
  the mode, the layer and the keymap while an event is half processed; it sets
  the idle flag the main loop has just cleared; it writes to the ring the main
  loop is writing to, and over the chunk it is sending; it asks for an
  enumeration while the main loop ends one.
- **Key releases are looked up anew.** Nothing remembers what was sent for a
  press, so correctness rests on the release finding the same event.
- **Reports are sets with a capacity** of six slots or 224 bits, shared by
  switches that may carry the same code.
- **Time**: one timer debounces the whole matrix; timers are compared on a
  counter that wraps; contacts bounce while rows are being read.
- **The host**: it fetches reports when it likes, resets the bus when it likes,
  and then drops what was under way.
- **Power** may be lost while flash is erased or written.

`PROJECT.json` lists the hazards with their lines, and the properties that
cover each.

What makes each component correct:

- matrix: a value is taken only when it was stable, a switch does not chatter,
  and contacts that hold still are reported in bounded time;
- keyboard and keymap: the host sees a key exactly while it is held, within the
  capacity of the report; nothing stays stuck after the last release;
- USB endpoints: no wake-up is lost, so that whoever waits for an idle endpoint
  goes on; a report is lost only when the code means to lose it;
- configuration: what is loaded was saved as a whole, whenever power is lost;
- macros: what a macro presses it releases, and it comes to an end;
- serial and log: bytes come out in order, none is made up, and the log goes on;
- commands: each line is taken once and as a whole;
- enumeration: the keyboard begins to scan, soon, after every reset of the bus,
  and does not restart itself while a host is talking to it;
- mouse, automouse, extra keys: the pointer stays where it is, the wheel turns once
  for a wheel key, extra keys are let go, and the automouse goes on clicking while it
  is on.

## Modules

| module | models | status |
|---|---|---|
| `Keyboard` | `keyboard.c`, `keymap_event`, the interrupt's changes | checked and proved |
| `KeyboardProofs` | theorems about `Keyboard` | |
| `Matrix` | `matrix.c`, `clock.c`, the contacts | checked and proved |
| `MatrixProofs` | theorems about `Matrix` | |
| `Usb` | report endpoints of `usb.c`, the peripheral, the host | checked and proved |
| `UsbProofs` | theorems about `Usb` | |
| `Mouse` | `mouse.c`, `automouse.c`, `extrakey.c`, `led.c` over `Usb` | checked and proved |
| `MouseProofs` | theorems about `Mouse` | |
| `Enumeration` | `main` of `5x5.c`, and what `usb.c` tells it of the host | checked and proved |
| `EnumerationProofs` | theorems about `Enumeration` | |
| `ConfigStore` | what a store of configurations promises | abstract |
| `Flash` | `flash.c`, power loss, failing flash operations | checked, proved to implement `ConfigStore` |
| `FlashProofs` | theorems about `Flash` | |
| `Typist` | what macro keys promise the host | abstract |
| `Macro` | `macro.c` over `Usb`, with switches and commands that interfere | checked, proved to implement `Typist` |
| `MacroProofs` | theorems about `Macro` | |
| `Scan` | `Macro` with switches as `matrix.c` debounces and scans them | checked |
| `CommandLine` | what the command channel promises, line by line | abstract |
| `Command` | `serial_in` and `command.c` over any packets | checked, proved to implement `CommandLine` |
| `Ring` | `ring.c` as operators on records | proved |
| `Pipe` | what the serial log promises | abstract |
| `Log` | the output ring with two writers, `serial_out` and its endpoint | checked, proved to implement `Pipe` |
| `SerialProofs` | theorems about `Ring`, `Log` and `Command` | |
| `MC_*` | instances for TLC | |

Of these, `Macro` and `Mouse` extend `Usb` and `Log` extends `Ring`: they add the
clients to the component and change its variables by its actions only. `Flash`
refines `ConfigStore`, `Macro` refines `Typist`, `Command` refines `CommandLine` and
`Log` refines `Pipe`, each through an `INSTANCE`. The proof modules `MouseProofs`
and `MacroProofs` build on `UsbProofs` in the same way.

### Keyboard

`keymap_event` is cut where the interrupt can be told to have come between:
`KeyEvent` (the event is looked up and `keyboard_event` copies it), `EventMod`
(the modifiers), `EventKey` (the key), `EventSend` (the dirty reports go out
and `matrix_process` notes the switch). `LayerEvent` and `OtherEvent` are the
other branches of `keymap_event`. The variable names are the source's; a
modifier byte is a set of bits, the NKRO bitmap the set of codes whose bit is 1
and the boot report's slots a function. `InNkro` has the 8 bit wrap-around of
`key - KEY_A`. `SetFirstSlot` is the loop over `keys[]` that both
`keyboard_add_key` and `keyboard_del_key` have: the first slot that fits.

`Interrupt` may come between any two steps: `SetMode`, `KeymapSet`,
`FlashReadConfig`. That `keymap_event` reads the event's bytes one after the
other while command K may be writing them is left out: an event is read whole.
Macros, which also call `keyboard_event`, are in `Macro`.

`posted` is what the host would know if every report reached it; `Usb` is about
whether it does. Two ghosts speak of the past: `clean`, that no change of
keymap, layer or mode has hit a key in use since all was quiet, and `peak`, how
many switches were down at once. `clean` is the precondition of the properties
because a change while a key is down does leave it stuck, by design of the
lookup. It is not a strong one: a layer key pressed or released while no key is down
keeps a run clean (the shipped keymap has no layer keys; command K can make
some), and after any other change the run becomes clean again when all is quiet.

### Matrix

One pass is `ReadRow`, `NoteRow` for each row, `Take`, `ProcessSwitch` for each
changed switch, `ProcessDone`. `Bounce` flips a contact at any moment.
`sys_tick_handler` counts, at most `Stall` ms in a pass. `timer_set` wraps,
`timer_passed` compares as the code does. Events are what `Keyboard` takes;
here only that there is one matters. The ghosts `noted`, `quiet`, `still` and
`stalled` are stop watches that stop just beyond the longest time a property
asks about.

### Usb

`Update` clears the idle flag, `Write` offers the packet, `Spin` is the retry
loop. `SendFromMatrix` is a switch event, which does not look at the flag,
`SendIfIdle` is `send_if_idle` of a macro and `automouse_repeat`, which do. The peripheral
is known from the libopencm3 calls only (its submodule is empty) and is marked
external: `full` is a packet the host has not fetched, `ctr` a transfer done
whose interrupt is pending, and a bus reset or the set-up of the endpoints in
`usb_set_config` discards both. The ghosts are `crowded`, endpoints a switch
event was sent to before they were through, and `dropped`, endpoints whose
report a reset discarded.

### ConfigStore and Flash

`ConfigStore` is the promise: a save or a clear that is cut short leaves the old
configuration, none, or, for a save, the new one, always whole. `Flash` has the words:
`ErasePage` page by page, `WriteWord` word by word, `WriteCrc`; `EraseFails` and
`WriteFails` are the error returns, with the flash left in any state the
operation can leave it in; `PowerLoss` may come at any point, in the middle of a
page or a word. The five calls of `flash_write_block` are one ascending run of
words, because the five members of `flashdata_t` follow one another without a
gap. W and Z run to their end in the interrupt, so RAM does not change
meanwhile; the serial input that would change it waits. As in the code, a W that
fails does not lock the flash again. The refinement mapping is
`saved <- Stored`, `doing <- Doing`: what is stored is what a power up would
load, that is the data words if the CRC fits them.

### Typist and Macro

`Typist` is the promise: after a macro key is pressed the host sees each stroke
of its phrase go down and up again, in order and exactly once. `Macro` is
`macro.c` on top of `Usb`: `macro_event` starts a macro and `macro_run` goes
round `RunPress`, `RunRelease`, `RunNext`, the first two only when both keyboard
endpoints are idle. Everything else happens between its steps and between those
of `usb_update_*`: `SwitchEvent` (other keys, which do not wait for an idle
endpoint), `macro_set_phrase`, `macro_init`, `flash_read_config`, `SetMode`, a
macro key pressed again, resets, and the host that fetches reports.

A stroke is an event of `map_ascii.c`: a key with its modifiers. A report is the
set of the strokes down in it; slots, shared modifiers and the mode changing
within an event are in `Keyboard`. The interrupt is not interrupted, so a phrase
is stored in one step, also when a character without an event breaks it off:
then the events stored so far replace those of the old phrase and the old length
is kept, which `Typist` has as `Mixed`. A macro of length 0 still runs its first
event once. `Write` takes the report as it is at the moment, which is why
`packet` is set there and not in `Update`.

Two ghosts: `sure`, that nothing interfered with typing since all was quiet (no
other key, no restart, no reset, no change of the running macro or of the
mode while anything is down), the precondition of `Typist`'s promise; it is
given again when all is quiet. `cut`, that the macro that runs was changed,
restarted or moved to the other mode half way.

`Scan` extends `Macro` with what `matrix_process` lets switches do: those that
change in one scan send one report each, back to back, and a switch changes again
only after the debounce time. That is more than the 10 ms after which a host has
fetched a report at the latest (`bInterval`), so nothing is under way any more.
`Macro` by itself lets switches change at any moment, which its properties
withstand.

### CommandLine and Command

`Command` has one action, `serial_in`: the USB interrupt writes a packet to the
input ring and, if the packet has an end of line, has `command_process` read the
ring until it is empty. `command_process` is a recursive function of the bytes
in the ring that gives the commands executed; `read_hex_8` takes any byte for a
digit, `PhraseEnds` begins one byte late because an end of line that comes first
becomes a character, `ring_skip_line` is the recovery from an unknown
command. `CommandLine` is the same channel seen by lines: each line is executed by
itself, what a line does depends on no other; the last, unfinished line of a
packet, and a line that overflows, is cut and executed as far as it goes (a macro is
not defined then); a line that breaks off inside a command spoils what follows, but
nothing after the packet.

The input ring is its contents in `Command`; that a ring is a queue of up to
`size - 1` bytes is what `SerialProofs` shows, and `Gathered` is the ring after the bytes
of a packet. `cdcacm_data_rx_cb` returns without reading after a
bus error; the models assume that libopencm3, whose source is not in the
repository, calls it again for the packet that was not read.

### Ring

`Ring` gives every operation of `ring.c` as the ring it leaves and what it
returns; `Contents` is the queue a ring stands for. It is about one user at a
time: the two users of the output ring are in `Log`.

### Pipe and Log

Everything that logs writes to one output ring: the main loop byte by byte, and
the USB interrupt (what commands print, the messages of resets and of the serial
port) in between. `Log` has `ring_write_ch` of the main loop as the machine takes
it, and each step is an action:

| action | source | what it does |
|---|---|---|
| `Check` | the first `if` | reads both places; a byte without room is dropped |
| `Load` | `end++` | reads `end` |
| `Store("end")`, `Store("data")` | `data[end++] = ch` | the two stores, in either order: C leaves it open |
| `Reload`, `Wrap` | `end %= size` | reads `end` again, writes it |

`serial_out` is `Read` (the flag and `ring_read_contineous`), `StoreBegin` (its last
store, which frees the chunk), `ClearIdle` and `Copy` (`cdcacm_data_wx`, which copies the
chunk from where it lies in the ring). The ring is not `volatile`; the model
assumes what an optimised build does (the Makefile has `-Os`), that a place is
read once between two stores. The interrupt is not interrupted, so each of its
messages is one step, made of `Ring`'s `ring_write_ch`.

`Pipe` is the promise: a queue of `size - 1` bytes; what has no room is dropped;
chunks are handed over in order, or refused as a whole. It names two exceptions,
and `LogsInOrder` shows that there are no others.

- While `harmed`, the queue may become any other. `harmed` is set when the interrupt
  writes to the ring while the main loop is between the two reads and the two
  writes of `end`: a byte of the interrupt is overwritten or skipped, or, when it
  finds `end` equal to `size`, its first byte goes one place behind the buffer.
  The code does this; the model shows that the harm is over when that one write
  is (the places are in range again, which is `TypeOK`), and that bytes are
  neither lost nor made up at any other moment.
- A chunk that was read and not yet copied is spoilt when the interrupt fills the ring
  completely in between.

`early` notes that the port was opened while a chunk was under way
(SET_CONTROL_LINE_STATE sets the idle flag at once, `usb.c:808`), the one case in which a
chunk is refused and lost; `silent` that it is closed, or that a bus reset took the chunk
whose interrupt would set the flag.

### Enumeration

`main` goes round

    boot -> attach -> flag -> test -> clear -> timer -> window -> decide
      ^                        | ^                                  | |
      `----- nothing seen -----|-|----------------------------------' |
                              work <------ activate <------ off <-----'

and each of its accesses to `enumeration_active` and `usb_ifs_enumerated` is a
step, because the interrupt writes them too: `BusReset` (`usb_reset`) and
`usb_control_request` (an interface was asked for) come between any two. `left` counts
down to `timer_passed(enumeration_timer)`. The host is explicit: it may be absent
and appear at any time, resets a device it finds and any device again when it
likes, and asks for interfaces no earlier than `Recovery` after a reset (the
recovery time of the USB standard); one that is there does the next thing within
`Patience`. `Stall` is the longest a pass of the main loop takes, the window aside.

The one assumption is `2 * Stall < Recovery`: between a bus reset and the moment
`usb_ifs_enumerated` is cleared lie the rest of a pass and the beginning of the
next. A pass takes well below a millisecond, the recovery is 10 ms. A bus reset
during the window leaves the window as it is: the flag it sets is cleared when
the window ends, but nothing it asks for is forgotten.

### Mouse

`Mouse` has the clients of the two remaining report endpoints. `keymap_event` is
`mouse_event` (mouse and wheel keys), `automouse_event` or `extrakey_event` and
notes the switch; `automouse_repeat` is the main loop's; `led_state` and `led_clear`
are used by both, by `macro_run` and by the host (`keyboard_set_leds`). What goes
to the host passes through `Usb`: `MouseWrite` puts `mouse_state` or `state` in the
packet as it is at the moment, `MouseHostPoll` is the host acting on it. x stands for
x and y, which the code treats alike; h and v it does not: `automouse_repeat` clears h
and leaves v as it was (`Unturned`). Movements are 8 bit numbers, and -128 is its own
opposite. The automouse timer is set or has passed; how timers
compare is in `Matrix`. The keymap does not change in `Mouse`: what a change does
to a key that is down is in `Keyboard`.

Ghosts: `clicked` marks reports the automouse filled in and `drift` sums up the
movements in them as the host carries them out, so that `NoDrift` is about the
automouse also while mouse keys move the pointer; `turns` counts, for either way a
wheel turns, presses of wheel keys less reports in which the host saw it turn, and
stops at -1; `lost` has the endpoints of which
a report did not get to the host; `lit` the LEDs the host turned on.

## What the runs check

| run | instance | distinct states | checks |
|---|---|---|---|
| `keyboard` | 3 switches, 2 layers, 2 slots, commands K and R | 1 236 000 | `TypeOK`, `SlotsBacked`, `AllUpAllClear`, `Rollover`, `ModifiersExact` |
| `matrix` | 2 x 1 switches, 9 ms | 3 587 000 | `TypeOK`, `StableBeforeTaken`, `NoChatter`, `ReportedInTime` |
| `mouse` | 2 endpoints, 5 keys, 1 reset | 402 000 | `MouseTypeOK`, `WakeUpPending`, `BusyOnlyIfCrowded`, `IdleOrDropped`, `NoDrift`, `WheelTurnsOnce`, `ExtraKeysLetGo`, `LedsOff`, `Clicks` |
| `enumeration` | 3 interfaces, a window of 9, 3 resets | 15 700 | `TypeOK`, `NoSpuriousReset`, `DeafInTime`, `Scans` |
| `log` | a ring of 4 places, chunks of 2, 1 reset | 427 000 | `TypeOK`, `LogsInOrder`, `LostOnlyAfterAttach`, `Drains` |
| `flash` | 3 pages of 2 words, 3 words of data | 2 100 | `TypeOK`, `WriteTells`, `KeepsConfig` |
| `macro` | 1 macro, 2 strokes, 3 phrases, 3 interferences, 1 reset | 112 000 | `MTypeOK`, `NothingLeftDown`, `TypesThePhrase`, `MacroEnds` |
| `command` | 5 bytes, packets of up to 3, a ring of 7 places | 87 000 | `CommandTypeOK`, `NoLineWaits`, `ExecutesLines` |
| `matrix_wrap`, `usb_reset`, `report_lost`, `mouse_wheel` | a clock that wraps; `Usb` by itself; that of `macro` with two switches that are scanned; that of `mouse` | | one violated property each, see below |

Keyboard:

- `SlotsBacked`: a reported code is held by a switch, and no more slots report it
  than switches hold it. `keyboard_add_key` can give a code a second slot (the
  first free slot comes before the one that has it) and `keyboard_del_key` clears
  one slot only; this is why the slots run empty nevertheless.
- `AllUpAllClear`: with all switches up the host was told so.
- `Rollover`: every key held is in the report, if switches do not share codes;
  in the boot report up to six keys at once.
- `ModifiersExact`: the report of the mode has the modifiers held, no more and,
  when no two switches share one, no fewer.

Bounds: layer 0 has a code of the NKRO bitmap and one above it, layer 1 gives one
code and one modifier to two switches; a layer number that needs the reduction
modulo `LAYERS_NUM`; the mode changing between any two steps. Three switches are one
more than the slots; the event that K writes gives them three codes in layer 0, so
that a press finds no slot and its release must disturb nobody. K changes one position at a time (`FewChanges`), any position,
the layer switches included; runs that are not clean any more are followed only
while the keymap is the factory map, because the properties speak of them again
when they are clean, from rest. All five are proved for any size.

Matrix:

- `StableBeforeTaken`: when the value of a switch is taken, no scan noted another
  one in more than `MS_DEBOUNCE` ms.
- `NoChatter`: two events of a switch are more than `MS_DEBOUNCE` ms apart.
- `ReportedInTime`: once contacts have been still for the debounce time and four
  passes, they are reported as they are: a pass to note them, one that may have
  begun before the timer ended, one that takes them, and the rest of the one
  they came to rest in.

Bounds: two rows, so that a bounce falls between the reads of two rows and rows are
noted in different passes; 9 ms are more than `Latency`, which is 5 there.
`Stall`, the longest pass, is one ms; all four are proved for any debounce time and any
`Stall`.

Usb (in `mouse`, with its clients): `WakeUpPending` (an endpoint that is not idle has something coming that will
make it idle), `BusyOnlyIfCrowded` (a report that finds its endpoint busy comes
after a switch event crowded it: waiting for idle works among clients
that wait), `IdleOrDropped` (each endpoint becomes idle again and again, or lost
its report to a reset). Endpoints interact only through the one main loop, so
two are enough; one try reaches both ends of the loop, and `usb_reset` has two;
two resets there allow one during the recovery from another.

Mouse: `NoDrift` (with automouse keys that are all alike and a wiggle other than
-128, turned off at any moment, on again, with mouse keys in between, the automouse
never moves the pointer further than one wiggle from its place), `WheelTurnsOnce` (a
press of a wheel key turns the wheel once at the most, although its movement stays
in the report: sideways in any case, up and down as long as the automouse is not
used; `mouse_wheel` shows what happens when it is),
`ExtraKeysLetGo` (with every switch up the host knows of no consumer and of no system
code, although one report carries both and the release of either clears it), `LedsOff`
(three writers, and no LED stays on that the host did not turn on), `Clicks` (as
long as the automouse is on, the host sees its buttons go down and up for ever,
whatever mouse keys do to the report and the endpoint they share). Bounds: a
key of each kind, the mouse key with the button of the automouse, a wheel key that
turns the wheel both ways; four mixes of inputs
(`Budgets`): an automouse turned on three times, mouse keys in the middle of its
clicks, both extra keys in any order, LEDs written by all three.
The run does not check deadlock, for the reason given for `macro` below.

Enumeration: `NoSpuriousReset` (the system restarts only if the host has asked for
nothing since it reset the bus or saw the device appear: no reset at any moment
makes the main loop forget what it was asked), `DeafInTime` (no scan is further
off than a window and a pass), `Scans` (a host that is there is typed to, again
and again; this is where the order of the assignments to the shared flags
matters). Bounds: three interfaces, so that none, some and all can have been
asked for; a window that three recoveries fit into; three resets.

Log: `LogsInOrder` is the refinement of `Pipe`; `LostOnlyAfterAttach`: a chunk is
refused only if the host opened the port while one was under way; `Drains`:
`serial_out` never waits for an endpoint that waits for it, as long as the port is
open and no reset took a chunk. Bounds: room for three bytes and chunks of two, so that
chunks end at the end of the buffer and in the middle; a message that fits, one
longer than the ring.

Flash: `KeepsConfig` is the refinement of `ConfigStore`; `WriteTells` says that W
returns 1 only if what is in RAM is what a power up would load, and 0 only if a
flash operation failed. Data that ends in the middle of a page, a page between
data and CRC, and a configuration with words that read as erased are in the
instance. The CRC is taken to tell different images apart.

Macro: `TypesThePhrase` is the refinement of `Typist`. `NothingLeftDown`: whatever
switches do meanwhile, a macro that was not cut leaves none of its strokes down.
`MacroEnds`: a macro comes to its end, redefined or cleared as it may be, unless a
reset took the report it waits for. Bounds: phrases with a repeated character
(the two must not be joined), with a stroke that a switch types too, and one
character too long for the buffer; three interferences from commands and
switches, so that a macro can be restarted, redefined and cleared in one run, and one
reset. The run does not check deadlock because interferences and resets are
bounded: once they are used up and a reset has taken the report a macro waits
for, nothing can happen any more (that is the finding of `usb_reset`).

Command: `ExecutesLines` is the refinement of `CommandLine`. `NoLineWaits`: no
complete line stays in the ring, not even when the ring had no room for its end,
so that a full ring cannot block the channel. Bounds: a byte of every kind (an
end of line, a command without arguments, K, M, a digit that is no command), a
keymap command with one pair of digits instead of seven, a ring that holds a
whole macro command with another one before it and is overflowed by every longer line.
Packets of two bytes and some of three cut lines everywhere.

**Fairness.** No fairness is assumed of key presses, commands or resets.

- `Usb`: the main loop goes on (it never blocks), the interrupt is enabled and
  served, and the host polls the endpoints of a configuration it has set and
  sets one after a reset, as a USB host does.
- `Macro` adds weak fairness of `macro_run`, `Mouse` of `automouse_repeat`, which the
  main loop calls again and again, and of the time that passes.
- `Enumeration`: the main loop runs, time passes, and a host that is there acts
  when it is due.
- `Log`: the main loop goes on with what it began, the host polls, the interrupt is
  served. `serial_out` has strong fairness: it is called in every pass, between
  calls that log, so it is enabled again and again rather than all the time.
- `Matrix` states weak fairness of the main loop's steps; no run needs it.
  `Keyboard`, `Flash` and `Command` have safety properties only.

## What is proved

| theorem | states | from |
|---|---|---|
| `TypeCorrect`, `NoPhantomKeys`, `NoStuckKeys`, `HeldKeysReported`, `ModifiersFollow` | `TypeOK`, `SlotsBacked`, `AllUpAllClear`, `Rollover`, `ModifiersExact` of `Keyboard` | `KeyboardAssumption` |
| `TypeCorrect`, `OnlyStableTaken`, `NoSwitchChatters`, `ReportsInTime` | `TypeOK`, `StableBeforeTaken`, `NoChatter`, `ReportedInTime` of `Matrix` | `MatrixAssumption`, `NoWrap` |
| `TypeCorrect`, `NoLostWakeUp`, `WaitingIsEnough` | `TypeOK`, `WakeUpPending`, `BusyOnlyIfCrowded` of `Usb` | `UsbAssumption` |
| `MouseTypeCorrect`, `MouseKeepsUsb`, `PointerStays`, `WheelTurns`, `NoStuckExtraKeys`, `LedsGoOff` | `MouseTypeOK`, the two of `Usb`, `NoDrift`, `WheelTurnsOnce`, `ExtraKeysLetGo`, `LedsOff` of `Mouse` | `MouseAssumption`, `UsbAssumption` |
| `TypeCorrect`, `ResetsOnlyUnasked`, `ScansInTime` | `TypeOK`, `NoSpuriousReset`, `DeafInTime` of `Enumeration` | `EnumerationAssumption` |
| `TypeCorrect`, `FlashKeepsConfig`, `WriteTellsTruth` | `TypeOK`, `Flash` implements `ConfigStore`, `WriteTells` | `FlashAssumption` |
| `MacroTypeCorrect`, `MacroKeepsUsb`, `MacroLetsGo`, `MacroTypesThePhrase` | `MTypeOK`, the two of `Usb`, `NothingLeftDown` of `Macro`, `Macro` implements `Typist` (`TypesThePhrase`) | `MacroAssumption`, `UsbAssumption` |
| `ContentsType`, `WriteAppends`, `ReadTakesHead`, `ReadContineousTakesPrefix` | what the operations of `Ring` do to the queue it stands for | a ring with its places in range |
| `LogTypeCorrect`, `LogLosesOnlyAfterAttach`, `LogIsInOrder` | `TypeOK`, `LostOnlyAfterAttach`, `Log` implements `Pipe` (`LogsInOrder`) | `LogAssumption` |
| `CommandTypeCorrect`, `NoCompleteLineWaits`, `LinesAreExecutedAlone` | `CommandTypeOK`, `NoLineWaits`, `Command` implements `CommandLine` (`ExecutesLines`) | `CommandAssumption` |

- `KeyboardInv` is `SentInv` (types, the event in progress belongs to a switch
  about to change, a report that is not dirty was sent) and `CleanInv`, for
  clean runs: the keymap still says what was read (`EventRead`), each code is in
  the report its release will look in (`InItsReport`), modifiers and codes are
  backed by switches (`ModsBacked`, `KeysBacked`). `SlotsBacked` alone is not
  inductive: that the release finds the code needs `EventRead` and
  `InItsReport`, and that a slot was not filled twice needs the count.
- `CompleteInv` is the other direction, that nothing held is missing: every code
  held has its bit or its slot (`KeysComplete`) and every modifier is in both
  reports (`ModsComplete`). That a free slot is found is a matter of counting: no
  slot repeats a code of distinct codes (`SlotsBacked`), so as long as no more
  switches are down than there are slots (`Few`, `PeakCovers`) one is left.
- `DebounceInv`: the timer was set no earlier than the last note of any switch
  (`TimerCovers`), a switch noted and not taken has been quiet since
  (`QuietWhileNoted`), and events of a pass come from one take
  (`EventsOfTake`). `NoWrap` (the clock stops before a timer wraps) is necessary:
  `matrix_wrap` shows what happens otherwise.
- `LatencyInv` follows contacts that hold still through the passes, each conjunct one
  stage later than the one before: rows scanned so far are as the contacts
  (`ScansRows`), after a whole pass all of them (`AllNoted`), from then on the
  timer is not set again (`TimerEnds`), the pass after its end takes the values (`Taken`)
  and reports them (`Reported`). `StillAtPass(n)` counts from the beginning of
  the pass, which is why every stage costs one `Stall`.
- `UsbInv`: beside the two properties, an endpoint with a report under way that is
  idle, or with two, is crowded (`CrowdedIfTwo`, `CrowdedIfSending`), and what a
  reset took is gone (`DroppedIsGone`). Without them a transfer of an earlier
  report could set the flag of a later one.
- `MouseInv`: the wiggle that the host has not seen yet is in the packet and in the
  report about to be written, and the three together are where `automouse_press`
  says (`WiggleUndone`); a turn of the wheel in either of the two was asked for and not
  yet made (`TurnsLeft`), which for v holds only while the automouse is off
  (`AutomouseUnused`); likewise the last code under way is held by a key
  (`CodesBacked`). A step of `Mouse` is a step of `Usb` (`UsbStep`), so `UsbInv`
  comes for free.
- `EnumerationInv`: whenever the main loop is about to clear
  `usb_ifs_enumerated`, the host is still in the recovery of the reset that
  caused it (`NothingToForget`); after that what it asks for is known
  (`Remembered`).
- `MacroInv`: unless a macro was cut, the report of the other mode is empty and
  that of the mode has, beside the strokes of switches, at most the stroke the
  running macro has pressed (`OwnStrokes`). `NothingLeftDown` says this of
  the end only, and the release must find the stroke: that it is still what the
  buffer says is what `cut` is about.
- `TypingInv` is what the refinement of `Typist` needs beside it: what `macro_len`
  counts are strokes (`NoHoles`), and while `sure` holds the report of one endpoint
  at most is under way, in one place (`OneAtATime`), nothing is down but what
  `macro_run` has pressed (`OneStroke`), and the host has the reports as they are
  but for the one it has yet to see (`HostFollows`). That waiting for both idle flags
  is enough follows from `OneAtATime`: with all flags up, nothing is unseen
  (`IdleIsSeen`). `todo` of `Typist` is the report on its way and those still to be
  made: `macro_run` moves one from the second to the first (`MadeOne`), so it shows
  nothing; the press of a macro key appends a phrase (`StartStep`) and the host's fetch
  takes the head (`PollStep`). Commands that keep `sure` leave the running macro alone
  (`BotherSpares`); what a phrase that was refused half way makes of a macro is
  `RefusedIsMixed`.
- `FlashInv`: the CRC in flash is that of a configuration of which every data
  word is either left or erased (`CrcOfConfig`), pages and words before the one
  in progress are done (`ErasedSoFar`, `WrittenSoFar`). That erasure reaches the CRC only
  with the last page is harmless because a data word that is erased changes
  the CRC's image or equals what it was.
- `LogInv`: what the registers of `ring_write_ch` hold belongs to the ring as it is,
  unless the write is `harmed` (`CleanWrite`: the room it has seen is still there, its
  place is the end of the queue, and once `end` is stored it lies in the queue), the
  chunk of `serial_out` lies at the begin of the ring and then right before it
  (`Reads`), and one chunk is under way at most (`OneChunk`). `TypeOK` alone is not
  inductive: that `end` comes back into the ring after a harmed write needs `Writes`.
  The refinement follows the queue through each step: a store of `end` appends to it
  (`StoreEndStep`), `StoreBegin` takes a chunk off it, and a message of the interrupt is
  one put for each of its bytes that has room (`InterruptPuts`).
- Command needs no invariant beyond its two; the work is in the functions. That a
  packet leaves what `CommandLine` keeps of it is `GatheredIs`; that
  `command_process` executes a line and then what follows the line is
  `LineIsExecuted`; without an end of line it executes the bytes as far as they go
  (`NoLineEnds`); both go into `PromiseIsKept`. That `command_process`, `Commands`,
  `WellFormed` and `Promise` are functions at all, on sequences of any length, is
  `RecursionExists` with the length as rank.

Induction. The induction theorems of the library have an operator as a parameter,
which the provers cannot instantiate. `SerialProofs` therefore has induction over sets
(`SetInduction`, `RankInduction`) and the existence of recursive functions
(`RecursionExists`), with functions in place of operators, from the
well-foundedness of `<` on `Nat`. All facts about packets and messages of any
length rest on these.

The assumptions beyond the shape of the constants are that the CRC is injective
(`FlashAssumption`), that two passes are shorter than the recovery of the bus
(`EnumerationAssumption`), and `NoWrap`. The constants are otherwise arbitrary: any
number of switches, layers, slots, rows, columns, pages and words, endpoints,
retries, resets, codes, macros and phrases. What a property itself supposes is part of what is proved:
`NoDrift` speaks of automouse keys that are all alike and of a wiggle that has an
opposite, several properties of runs that are `clean`, not `cut`, or that lost no report.

Every safety property and every refinement that a passing run checks is proved. Only
model-checked is what is liveness (`IdleOrDropped`, `Clicks`, `MacroEnds`, `Scans`,
`Drains`), which is outside the prover's reach.

## Disagreements found

- `matrix_wrap`: `timer_passed` compares on a counter that wraps. In the last
  10 ms before it does, 49 days after power on, `matrix.c`'s promise to take a
  value only after it has been stable does not hold.
- `usb_reset`: the idle flag of an endpoint whose report a bus reset discarded is
  not set again, so a macro in progress stops until a key is pressed.
- `report_lost`: a report that finds its endpoint busy is lost: the retry loop of
  `usb_write_packet` counts without retrying. Of two keys pressed in one scan, as in the
  run, the host knows the first only until the next key event; of two released in one
  scan the second stays down.
- `mouse_wheel`: `automouse.c:92` clears `automouse_state.v` and not `mouse_state.v`: after a
  wheel key the wheel goes on turning up or down with every click of the automouse.

Seen while reading, without a run of their own:

- A mouse key sends nothing when it is released (`mouse.c:49`), and the automouse, turned
  off while its button is down, does not let it go (`automouse.c:60-66`): the host knows of
  the button until the next mouse report.
- README.md:99 has commands interpreted after a newline; a packet with a newline has
  the unfinished line after it interpreted too. The recipe at README.md:120 begins
  with a newline, so a macro that makes it longer than the 32 bytes of a packet is
  lost. Nor does that newline always make what follows the start of a command
  (README.md:124): an unfinished K or M in the ring takes it as an argument.
  `CommandLine` has both in
  its promise, so `ExecutesLines` says exactly how far they go.
- A bus reset during the enumeration window does not renew it, as the comment at
  `5x5.c:98-100` has it: the main loop clears the flag it sets when the window ends.
  `NoSpuriousReset` and `DeafInTime` show that this does no harm.
- The README gives macros 32 characters and `macro_set_phrase` takes 30; the README
  dumps the keymap with `d` and the code with `k`.

## What is left out

- The USB descriptors and `config.h` (constant data), `debug.c` (it stops in the
  debugger), the host utilities: no behaviour to check.
- Control requests that only store or return a byte nobody uses (idle rates, GET
  requests), and how `printf` formats: a message is its bytes.
- Positions outside an array: `keymap_set`, whose bounds tests are off by one, and
  macro keys with a number beyond `MACRO_MAXKEYS`, which command K can make.
- An event the interrupt overwrites while the main loop reads its bytes is read
  whole, in `Keyboard` and in `Macro`; the LEDs are written in one step.
- An automouse `times` of 0, which divides by zero, and values cut to eight bits; no
  keymap of the repository has them.
- Events of macros other than keys: `macro_set_phrase` makes none; a configuration
  written by other firmware could have them.

## Plan

Written: 1 `Keyboard`, 2 `Matrix`, 3 `Usb`, 4 `Flash` over `ConfigStore`,
5 `Macro` over `Typist`, 6 `Command` over `CommandLine`, 7 `Ring`, 8 `Log` over `Pipe`
and `Ring`, 9 `Enumeration`, 10 `Mouse` over `Usb`, 11 the theorems above.

What could be added:

- The composition of `Keyboard` and `Usb`: when does what the host knows equal
  `posted`. `report_lost` shows when it does not.
- The GET_REPORT reply, which copies a report the main loop may be changing.

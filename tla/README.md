# Verification of the Xiaomi M365 dashboard firmware

The repository is the firmware of a small display for the Xiaomi M365 scooter:
an nRF52 connects to the scooter over BLE, asks it three times a second for its
speed, now and then for battery and remaining distance, and draws them on an
OLED.  This directory holds TLA+ models of it, checked with TLC, and proofs
checked with TLAPS.  `PROJECT.json` lists components, runs, mutants, findings,
hazards and theorems, and maps every definition to the lines it models.

## 1. The system

The application is `main.c`, `ble_module.c`, `ninebot_module.c`, `ninebot.c`
and `ssd1306.c`.  It is linked with parts of Nordic's SDK 12.3 whose sources are
in the repository (`app_timer.c`, `ble_db_discovery.c`, `ble_nus_c.c`, `bsp.c`,
`app_button.c`, `softdevice_handler.c`) and with the SoftDevice S132, a binary.

### Who runs when

| context | priority | what it runs |
|---|---|---|
| SoftDevice | above all | the radio; changes the link at any moment, queues events |
| SWI2 (SoftDevice events) | 6 | `ble_evt_dispatch`: `on_ble_evt`, discovery, NUS client, drawing |
| RTC1, SWI0, GPIOTE | 7 | timer handlers (polling, LED, button), the timer list, button edges |
| `main` | thread | start-up, then `sd_app_evt_wait` |

A context is preempted by the ones above it between any two statements, and
two of those above `main` busy-wait: the NUS event handler 30 ms, the polling
handler twice 100 ms.  Nothing is locked apart from the two indices of the timer
ring.

### Components

| component | source | state | operations | what makes it correct |
|---|---|---|---|---|
| timer queue | `app_timer.c` | ring of requests, linked list, `is_running` | start, stop, RTC1 expiry, SWI0 list update | a stopped timer stays silent; no request is forgotten; the list stays a list |
| BLE central | `ble_module.c` | – (link and GATT state live in the SoftDevice) | `scan_start`, `on_ble_evt`, `ble_nus_c_evt_handler` | always on the way to a scooter; no call fails into `APP_ERROR_CHECK` |
| database discovery | `ble_db_discovery.c` | `discovery_in_progress`, one service record, indices | start, three kinds of response, disconnect | ends; finds the handles of this peer |
| NUS client | `ble_nus_c.c` | connection handle, three attribute handles | discovery event, notification, disconnect, send | knows a link exactly while one with a NUS is up |
| polling | `ninebot_module.c` | `connected`, values, a copy of the NUS client, counter | start, stop, timer handler, receive | asks while a session lasts, is silent otherwise |
| advertisement parser | `ble_module.c` | index into the report | `is_uuid_present` | finds the NUS where it is offered and nowhere else |
| frame codec | `ninebot.c` | the parser's index and checksum (static) | create, serialise, parse | accepts what the scooter sent, of damaged frames only those whose length byte shrank |
| screen | `main.c`, `ssd1306.c` | framebuffer | `ninebot_data_updated_handler` | shows what the session is worth |
| LED | `bsp.c` | stable state, LED timer | indication, timer handler | shares the timer ring |
| buttons, sleep | `app_button.c`, `bsp.c`, `main.c` | pin state and transition of each button, one detection timer | edges, timer handler, sleep | a release puts the chip to sleep |

### How they interact

`on_ble_evt` sees an event first, then the discovery module, then the NUS
client.  A completed discovery calls back through `ble_nus_c_on_db_disc_evt` into
`ble_nus_c_evt_handler`, which takes the handles, waits 30 ms, enables
notifications and calls `ninebot_nus_start_polling`; that sets `connected`,
draws and starts the polling timer.  The polling handler sends through its own
copy of the NUS client.  Notifications come back through `on_hvx` to
`ninebot_nus_received_data`, the parser and `handle_ninebot_pack`, which draws.
A disconnect event goes the same way round: the NUS client, if it knew the
link, reports it, polling stops and `scan_start` is called.  Polling, LED and
button timers share one ring of two requests.

### What is hard here

* The SoftDevice is ahead of its events: a handler may work on a link that is
  gone, and the 30 ms delay makes that likely.
* Event handlers preempt the timer interrupts in the middle of the list.
* The ring of two requests overflows within one burst of events.
* State survives a link: the parser's index, the discovery's record, the copy of
  the NUS client, requests still in the ring.
* Everything that fails goes into `APP_ERROR_CHECK`, which halts the firmware
  (`DEBUG` build), or is ignored.

The hazards, each at its line and with the properties that watch it, are listed
in `PROJECT.json`.

## 2. The modules

### `TimerQueue` — `app_timer.c`

The list is the set `listed`, the ring the sequence `opq`; `running` is the set
of nodes with `is_running`.  `StartTimer` and `StopTimer` are the two calls;
`SwiDelete`, `SwiRestart`, `SwiPop` and `SwiEnd` are the steps of
`timer_list_handler` between which a higher priority may come in, `RtcExpire`,
`RtcSkip`, `RtcClear` and `RtcEnd` those of `timer_timeouts_check`.  `expired`
stands for the elapsed ticks that RTC1 hands to SWI0.  `cycle` records that a
node was linked a second time, which makes the C list circular.  Ticks and the
order of the list are abstracted: any set of listed timers may expire together.
The module has no `Next` of its own; `TimerClients`, `ScooterLink` and
`ButtonSleep` use it, and `TimerList` implements it.

### `TimerClients` — any clients of `TimerQueue`

Any timer is started or stopped between any two steps.  `silenced` and `late`
are history: the timers whose stop came in time and that were not started since,
and whether a stop came while SWI0 was inserting or was refused.

### `TimerList`, `MCTimerList` — the ticks behind `TimerQueue`

The same code with what `TimerQueue` abstracts: the list is a sequence of nodes
with the differences `ticks_to_expire`, a start carries RTC1's counter, and the
counter wraps around, stops, is cleared and meets COMPARE.  `compare_reg_update`
is three steps (`SwiRead`, `SwiSet`, `SwiCheck`) between which ticks and clients
come in, `rtc1_stop` two.  `left` is history: the true time to the expiry of each timer
that is timed.  A start times its timer (`Timely`) unless it comes during SWI0's insertions and its
count is replaced by 0, or it finds the node of a stop that was refused or came too late; a timer
that its own handler starts again, as the LED timer at every blink (`bsp.c:414`), is timed.
`ImplementsQueue` says that without the ticks every step is one of `TimerQueue`
or none; this is what allows the other modules to let any listed timers expire.

Two orders of events make the code measure time wrongly, and the module stops
(`misread`) when it meets one of them:

* `timer_list_remove` triggers TASKS_CLEAR without waiting for it
  (`app_timer.c:314`), so that `compare_reg_update` may read the counter of
  before; the next timer is late by what RTC1 had counted until then.
* a start that comes between the end of the insertions and the TASKS_CLEAR of
  `rtc1_stop` (`app_timer.c:188`) carries a counter that is gone.

Both are listed as hazards; `OnTime` and `NeverEarly` say what holds up to there.

`Slack` is how long interrupts of RTC1's priority may keep the processor in a row, and
`Wait[t]` how long until the handler of `t` is called, if it is among them: a handler may wait for those
before it, and what comes behind it does not count against its own timer (`Tick`, `served`).
`TimingAssumption` relates the constants.  `Offsets` is what COMPARE may be set behind a timer's time by
stops of other timers, since a stop in front of a node has COMPARE set again, each time at least an offset
ahead of the counter.  An interval, half the counter's range, the offsets and twice the slack fit into the
counter.  The interval of a repeating timer, or of one whose own handler is what takes so long, exceeds
`Wait[t] + Offsets + Slack`.  A handler may be `MaxLate(t)` late: `Wait[t]` when COMPARE is set and again when
it matches, the offsets, and the slack once, when a stop in front of its start had the counter cleared.

The firmware meets it, though its delays are long.  A tick is 30.5 us, the counter's range 2^24 ticks
(512 s), the offset 3 and so `Offsets` 10 for five timers.  The polling handler busy-waits twice 100 ms inside
the RTC1 interrupt (`ninebot_module.c:159,161`), 6554 ticks, and the polling interval is 10911 ticks.  These
200 ms come after the polling handler is called, so they count to `Slack` but not to `Wait["poll"]`.  The
assumption is `Wait["poll"] + Slack < 10901` ticks (332 ms), which leaves 132 ms to what runs before the
polling handler, after it, or above it while it waits: RTC1, SWI0 and GPIOTE take microseconds, and a drawing of the event
handlers some 23 ms.  The LED and button timers are single-shot and have
`Wait[t] = Slack`, so nothing is asked of their intervals, and the LED's of 200 ms may be shorter than
the slack; they may be late by three times the slack.

### `Session` — what `ScooterLink` promises

Seven phases (boot, searching, connecting, linked, session, lost, halted), the
existence of a link and the screen; no queues, rings or delays.  A session begins
only on a link that is there, ends only when its link is gone, and ends in a
search.  `Life` in `ScooterLink` is the refinement mapping and
`ImplementsSession` its specification as a property.

### `ScooterLink` — link, session and polling

The composition of `TimerQueue` with `ble_module.c`, the NUS client, the flag
and outcomes of the discovery, the session half of `ninebot_module.c`, the LED
timer, the choice of screen and `main` from `scan_start` on.

* External: `Advertise`, `Establish`, `Answer`, `Subscribed`, `Notify`,
  `PeerRequest`, `GattTimeout`, `LinkDown`.  Each changes the SoftDevice's state
  and posts the event in one step; the application sees the event later.
* Priority 6: one action per event (`OnAdvNus` … `OnDisconnected`), each the
  whole handler through all three modules.  `OnDiscFound` and `Settle` are the
  two halves of one handler, before and after its delay: events wait, the
  link does not.
* Priority 7: `PollFire`, `PollCheck`, `PollSend` are the polling handler;
  between them the event handler may run.  `LedsFire`, `SkipTimer`, `RtcStart`,
  `RtcReturn`, `SwiStep` are the rest of RTC1 and SWI0.
* Thread: `BootScan`, `BootIndicate`.  `main` can be preempted between them.
* `halted` names the `APP_ERROR_CHECK` that failed; a halted firmware, or one
  with a circular list, takes no further step (`Up`).

`Prompt` is the one assumption about time: a connection is not established
within the microseconds priority 7 needs for anything but its delays.

### The modules of proofs

`ScooterLinkInv` has the inductive invariants of `ScooterLink`, `TimerListInv` that of
`TimerList`.  `ScooterLinkProofs`, `TimerListProofs` (on the facts about lists of
differences in `TimerListLemmas`), `TimerClientsProofs` (with `ButtonSleep`),
`ScooterDataProofs` (with `NinebotFrames` and `Screen`) and `DiscoveryProofs` (with
`AdvParser`) are the proofs.
`TimerQueueProofs` has what all clients of the ring share, and `NaturalSets` what
the proofs about indices and bytes share (section 5).

### `NinebotFrames`, `ScooterData` — frames and values

`NinebotFrames` is the codec as operators on byte sequences: `create_request`,
`serialyze`, `parse` (with the parser's two static variables as an explicit
argument and result) and, for the scooter, `slave_answer`, which the repository
has for its emulator.  The running checksum is a recursive function, `Sums`.
`ScooterData` is `ninebot_nus_received_data`: every
notification goes through `parse` into a fresh pack and then through
`handle_ninebot_pack`.  The scooter answers the three requests, with whole
frames, frames cut in two, or frames in which a byte became another; the link may end
between the halves.  An answer carries the register asked for and the one behind it.
`MCScooterData` chooses registers with which damaged frames are accepted: the length byte says
where the checksum is and is part of its sum (`ninebot.c:54-69`), so a smaller one may find the
payload's next bytes to fit.  `55 AA 06 23 01 B4 22 00 00 00 FF FE`, a battery of 34 %, is accepted with a
length of 5.

### `Screen` — the battery bar

Extends `ScooterData` with the one computation of the screen that a wrong value
could upset: the end of the battery bar, computed in `double`, cut to `uint16_t`,
passed as `int16_t`, and the loop of `ssd1306_draw_line`, whose counter is an
`int16_t` as well and never passes 32767.

### `ButtonSleep` — `app_button.c`, the button half of `bsp.c`, sleep

A second composition with `TimerQueue`.  The board has two buttons (`boards.h:46`), the second of
which is the sleep button, and one detection timer for both.  `EdgeStop(b)` and then `EdgeCancel(b)` or
`EdgeDetect(b)` are the two halves of `gpiote_event_handler` (an event handler may
come in between; `edge` is the button it is at), `DetectionBegins` and a look at each button (`looking`), with the outcomes
`PassOver`, `Nothing`, `Push` and `Release`, are `detection_delay_timeout_handler`.  `transition` is the set of buttons
whose bit in `m_pin_transition` is set.  Only the sleep button's level is kept: nobody uses the events of the other, whose edges
come at any time and find any level.  `Release` may begin `sleep_mode_enter`;
`power = "delay"` is its wait with the display off, in which a drawing halts
(`DrawUnpowered`).  `Wake` is the reset.  The contact bounces at any moment, also
between an edge and the reading of the pin.  The timer `other` stands for the rest of the firmware.

`pressed`, `lost` and `stranded` are history: whether there was a press since the boot; whether an edge of the sleep button
was lost, because the ring was full or because the handler read a level that was gone again; and the buttons whose detection
has no timer any more.  The last is a defect of the shared timer.  Every edge of either button stops it
(`app_button.c:105`), but only an edge that begins a detection starts it again (line 134): two edges of button 0
within the 50 ms of the sleep button's debounce leave the sleep button's transition set and its timer unarmed, with no edge
lost.  Comments say otherwise (`app_button.c:101`, `app_button.h:52`: an edge restarts the timer).  Its release
then means nothing; its next edge clears the transition, the one after is seen again.

### `DbDiscovery`, `MCDbDiscovery` — the walk over the peer's attributes

`ble_db_discovery.c` with its one registered service.  The state is
`services[0]` (`end`, `charCount`, `chars`), `curr_char_ind` (`ind`) and the
request the SoftDevice is carrying out; one action per kind of response.  The
peer is its attribute table, and a response holds what fits a 23-byte MTU: one
characteristic with a 128-bit UUID, or the descriptors before the next value.
`handles` is what `ble_nus_c_on_db_disc_evt` makes of the result.
`DiscoveryAssumption` says of the peers that their tables are well-formed (handles of
16 bits in the order declaration, value, CCCD) and that a NUS has one TX and one RX
characteristic and fits into the record, which is also what the firmware takes for granted.
`MCDbDiscovery` supplies three peers, one of them with a service that ends at the last
handle there is, 65535.

### `AdvParser`, `MCAdvParser` — which peers are connected

Extends `DbDiscovery` with `is_uuid_present`, one step a turn of its loop over the
bytes of a report; a link is made to a peer whose report it accepts.  A UUID of 16
or 32 bits decodes to another type than the NUS has and never matches.  Reports are
well-formed: fields that fit, and padding behind or between them; in 31 bytes a field
of 128-bit UUIDs has room for one at most.  `Bytes`, a recursive function, lays the
fields out as they stand in the buffer.

`ScooterLink` abstracts this walk to `disc_more`, `disc_absent`, `disc_partial`
and `disc_found`, in any order; it therefore includes every sequence of outcomes
`DbDiscovery` produces.

## 3. The runs

| run | shows |
|---|---|
| `link` | type, session, screen, polling, LED and ring invariants of `ScooterLink` and the parts of its inductive invariants; it implements `Session`; a lost session leads back to scanning; a session polls |
| `timer_clients` | when `app_timer_stop` can be relied on |
| `timer_list` | timers are neither early nor later than `MaxLate` across wrap-around, stop and clear of the counter, with handlers that hold RTC1 for a third of the interval; the list implements `TimerQueue` |
| `scooter_data` | the parser and the values shown, over faults and lost links; the battery bar ends whatever the value |
| `button_sleep` | with two buttons on one timer: a detection keeps its timer but for a refused edge or one of the other button; the waking press is not a sleep, a later one is |
| `db_discovery` | the parser of reports tells a NUS from what looks like one; the walk ends, stays in its record, and when its result is right |

and six runs in which TLC refutes what the repository says of itself:

| run | refuted | in short |
|---|---|---|
| `scan_resumes` | `ScanResumes` | a link lost before its discovery completes is never followed by a scan |
| `link_calls_succeed` | `LinkCallsSucceed` | an event handled after its link is gone, or a link lost in the 30 ms delay, halts the firmware |
| `timer_requests_succeed` | `TimerRequestsSucceed` | so does a burst of three timer requests |
| `list_stays_acyclic` | `ListStaysAcyclic` | a late stop makes the timer list circular |
| `only_checked_values` | `OnlyCheckedValues` | a frame with a wrong checksum is shown |
| `handles_belong_to_peer` | `HandlesBelongToPeer` | the discovery's record is never emptied between links |

Every property of a passing run has a mutant: a `Bug_` variant of a
definition, a plausible slip in that code, with which TLC finds it violated.

### Bounds, and why they are enough

* `OpQueueSize = 2` and `MaxChars = 5` are the real values.
* `MaxEvents = 2` bounds the events waiting in the SoftDevice.  Two hold the end
  of a link behind its answer or its beginning, and the proofs of every safety
  property hold for any bound.  No property needs a full queue.
* `PollPeriod` is 100 in the code; with 1, handlers that send one request and
  handlers that send three take turns.  `Retries = 3` in `link` is the
  real value.
* `Timers = {"poll", "leds"}`: the ones the firmware starts apart from the
  button; `timer_clients` has three, two of them repeating, so every pair and a
  bystander occur.
* `timer_list`: a counter of 22 values instead of 2^24, the least that
  `TimingAssumption` allows for these intervals, so that it wraps around in every few intervals, as it never would
  in a bounded run of the real one.  COMPARE's offset is 2 (the real one is 3).  The interrupts keep the processor for
  `Slack = 2` ticks at most.  The repeating timer has an interval of 6, `Wait` 1 and a handler that may take the rest of the slack,
  as the polling timer has; the other, as the LED timer, an interval of 3 and `Wait` the whole slack, so that it
  may be due again before the handler of the first has ended.
  A counter read longer ago than half the range makes
  the code take a start for one of the future, and the model keeps `latest` younger
  than that (`Fresh`); in the code half the range is 256 s, and the LED and polling timers renew it
  every few seconds at most.
  `VIEW` identifies states that differ by a rotation of the counter: the code
  only uses differences, but for the counter read while it is cleared, where the
  module stops.  It also drops what no later step looks at: the count of a request that is about to be replaced,
  a COMPARE value that is set anew before the counter gets there.
* `button_sleep`: two buttons, the second the sleep button, is the board that is built; no bound but the
  ring: bounces, edges of the other button and other requests are unlimited.
* `scooter_data`: four pairs of registers: three whose answers are accepted with a length of 3, 4 or 5 (one of
  them with the sign bit), and one whose bar comes next to the largest `int16_t`; cuts in a header too short to parse (5), in the payload (9) and
  between the checksum bytes (11); damage in the header (1), length (3), command (6)
  and checksum (11), where a byte becomes 3, 4, 5 or 255; three faults, enough for a fault to hit the recovery from another.
  The view drops the parser's sum while it is idle, which is overwritten before it is read, and the code, which is never read.
* `db_discovery`: four links.  Two characteristics a link fill the record of five
  in the third; the fourth starts with a full one.  The reports have the UUID at
  the front, in the middle and at the end, behind fields of other widths, in both
  types, in fields that are no UUID lists, and with one byte changed.

### Deadlock

Deadlock checking is off where the system may stop: a halted firmware takes no
step, and bounded histories run out.  `halted` is what the properties look at.

## 4. Fairness

`ScooterLink`: weak fairness of the event handler (an interrupt above the
application); strong fairness of the priority 7 handlers, SWI0 (`SwiStep`) and timer expiry,
because they are enabled only when nothing above them is pending; and
`[]<>(Quiet \/ ~Up)`, that the queue of events runs empty again and again: a
link produces a few events in a connection interval and handlers take
microseconds.  Nothing is assumed of peers or of the link: a scooter may never
advertise, answer or leave.  `ButtonSleep`: strong fairness of the sleep button's edge handler (GPIOTE asks
for every pin that has changed), of the detection handler, the timer steps and expiry, weak fairness of the second half of an
edge handler, strong of SWI0's turn in particular (`SwiTurn`: RTC1
cannot keep it away, since only SWI0 arms COMPARE again), and `[]<>(swi = "idle")`, that events leave
SWI0 the time to finish; a contact may bounce for ever, and nothing is assumed of the other button.  `AdvParser`: weak
fairness of `Response`; without an answer the SoftDevice reports a timeout after 30 s and `ble_module.c`
disconnects.

## 5. What is proved

`ScooterLinkProofs` proves, for every set of timers that includes the two, every
ring size, bound of events, poll period and number of retries (the assumptions
`TimersAssumption` and `LinkAssumption`):

| theorem | states |
|---|---|
| `TypeCorrect` | `Spec => []TypeOK` |
| `ChecksThatHold` | starting a scan or a discovery never halts the firmware |
| `SessionIsBacked` | `connected` vouches for a link with a NUS, and the screen follows it |
| `SessionStaysArmed` | a session's polling timer is armed, and no request is stranded in the ring |
| `QueuesAreTrue` | `EventInv` and `TimerInv`, the two halves of the invariant |
| `RequestsReachKnownLinks` | no request packet reaches a link without a discovered NUS |

None of these is inductive.  The invariant is `LinkInv` of `ScooterLinkInv`; its
parts say

* `EventInv`: how the events in the queue relate to the link.  "disconnected" is
  the last event of a link and its presence goes with an idle SoftDevice; while
  the SoftDevice is scanning or connecting nothing of an earlier link is left in
  the queue or on record.  Without it a stale "disconnected" could end a new
  session.
* `TimerInv`: how the requests in the ring relate to the list.  RTC1 and SWI0
  work in turns; `running` nodes are listed; a queued stop has silenced its
  timer; during a session a stop of the polling timer in the ring belongs to an
  earlier one and is followed by a start.  Without the last part a queued stop
  could cancel the new session's timer.
* `OutcomeInv`: the properties themselves.

The proof goes by groups of actions (SoftDevice, boot, event handlers, interrupts)
for each part, after frame lemmas that say which variables a group leaves
alone.  TLC checks the parts on the instance of `link`.

It also proves `LedKeepsBlinking`: with a ring of at least two requests,
which is the firmware's, the LED timer runs or is about to while SCANNING is indicated.
Its handler drops the result of the restart, so the proof is about what fills the ring:
`AnswerInv` (one discovery a link, so one start of polling a session) gives
`RingInv` (every request of the polling timer in the ring, but one, has a start of
the LED timer behind it), and a full ring of two or more then holds such a start.
The three together are `LedsInv` (theorem `LedsInvariant`), which `link` checks as well.

The module also proves `LinkImplementsSession`: `Spec` implies `Session`'s
specification under the refinement mapping, every step being one of `Session` or a
stutter.  Besides `LinkInv` it needs `SettledInv`: a connection the NUS client knows
has its session or is in the delay before it, so a link lost there is a session lost.

`TimerClientsProofs` proves, for every set of timers, any of them repeating, and
every ring size:

| theorem | states |
|---|---|
| `StopKeepsItsWord` | `StopSticks`: no handler of a timer is called between a stop that came in time and the next start |
| `ListNeedsLateStop` | `CycleNeedsLateStop`: the list becomes circular only after a stop that came during SWI0's insertions or was refused |
| `RequestsAreServed` | `RequestsServed`: a request in the ring has SWI0 pending or at work |

The first two follow from `ClientsInv` (theorem `ClientsInvariant`, which also states
the types, `ClientsTypeOK`; checked in `timer_clients` as well): `TurnsTaken`, RTC1 and SWI0 work in turns and nodes
to be restarted are not in the list; `StopHolds`, what a stop in time leaves behind
until SWI0 has unlinked the node; `FlagsFollowList`, without a late stop a listed
node has its flag set or is about to be unlinked, so that the test of `is_running`
in front of an insertion is a test of the list.

The same module proves `SleepNeedsPress` (theorem `SleepIsMeant`) for every ring
size, set of timers and number of buttons on the one detection timer.  Its invariant `WakingPress` says that as long as the
sleep button has not gone down since the boot, every level of it read, or to be read after an
edge, is "up"; so no push is detected and the first release means nothing.

It also proves `DetectionStaysArmed`: a detection in progress has its timer armed, its start in the ring or the
handler coming to it, unless the ring refused an edge, or an edge of another button ended the timer and started none (`stranded`).
`ArmedInv` (theorem
`ButtonInvariant`, which also states the types, `ButtonTypeOK`; checked in `button_sleep`) says that the flag of the button's timer
is cleared whenever SWI0 unlinks it, which is what makes the start behind the stop
count.

### The timer list and its ticks

`TimerListProofs` proves, for every set of timers, any of them repeating, every ring size,
and every counter, offset, slack and intervals with `TimerListAssumption` and
`TimingAssumption`:

| theorem | states |
|---|---|
| `ListTypes` | `ListTypeOK` |
| `ListOnTime` | `OnTime`: no timed timer, those restarted by their own handlers included, is more than `MaxLate` ticks overdue |
| `ListNeverEarly` | `NeverEarly`: no handler is called before its interval is over |
| `ListImplementsQueue` | `ImplementsQueue`: `ListSpec` implements `TimerQueue` under the refinement mapping |

So what `ScooterLink` and `ButtonSleep` assume of `TimerQueue`, that any listed timers may
expire together and the rest of the list is as it was, is what the C list does.

The invariant is `ListInv` of `TimerListInv` (theorem `ListAlways`): the types, `OnTime`, and
`Deep` as long as the counter was not misread and the list is no circle.  Counters wrap around,
so `Deep` speaks of distances from `m_ticks_latest` only:

* `Passed` is what the counter has passed since, and `Line` what it had when the interrupts
  now pending or at work took the processor; the two differ by the slack at most.
* `NoWrap`: the counter does not come round, and no node is overdue at the line by
  more than `Allow`: the wait of its timer, and as many offsets as there
  can be nodes in front of it that may yet be stopped, fewer the further back it stands.  With the same
  allowance for all places, a stop that sets COMPARE behind the next node would break the invariant.
* `Armed`: COMPARE is ahead of the counter and in time for every node (`Set`), or an update is
  to come and no node will be late when it has come (`Unset`).  It follows `compare_reg_update`
  step by step; between the write and the check COMPARE may already be behind the counter.
* `Covers`: the elapsed ticks that RTC1 hands to SWI0 are the time of the last node covered,
  and the nodes behind it were not due when RTC1 came in.
* `Requests`: the counter in a request lies between the line and now, so that a difference modulo
  the counter's range, taken later, is the true one.
* `Pausing`: while the interrupts run, they have not taken longer than the wait of any timer whose handler was not
  called, and a timer whose handler was, and that may not wait the whole slack, is not due again before their time is up.  Without it a
  handler as long as the polling one would make its own timer late.
* `Lefts`: a timed timer is in the list, among those to be restarted, or in the ring, and what is
  left of its time agrees with the differences there.
* `Turns`, `Nodes`, `Clock`, `Reading`: who is at work when, no node twice, RTC1 runs while a
  timer is armed, and the counter read by an update is not from the future.

`TimerListLemmas` says what an insertion, a removal and an expiry do to the times of the other nodes
(nothing).  The induction has a lemma per action (`...Keeps`), with one lemma per part of `Deep`
where the part is hard.  `OnTime` follows from `Deep` in every state (`DeepOnTime`): what lies
between the line and now is the slack, what lies between a node's time and the line its
allowance.  `NeverEarly` follows from `Lefts` for a node that RTC1 found covered (`FireFacts`).
For the refinement each step is one of `TimerQueue`'s or changes nothing it can see (`StepRefines`).

### Frames and values

`ScooterDataProofs` proves, for every set of register values, every set of places where a
frame may be cut or damaged (`DataAssumption`: within the frame) and any number of faults:

| theorem | states |
|---|---|
| `FramesComeBack` | the codec's round trip: any frame of 1 to 12 bytes of payload comes out of an idle parser as it went into `serialyze`, whole, or cut anywhere from the ninth byte on, the fewest the parser opens a frame with, if both halves get the same pack |
| `DataTypes` | `DataTypeOK`: index, checksum, shown values and code keep their widths |
| `FaultCostsOneFrame` | `OneLossPerFault`: a cut, a damage or a lost rest costs one good frame at most |
| `HalvesJoin` | `HalvesWouldJoin`: the parser given its own pack again would complete the frame |
| `AcceptedGenuine` | `AcceptedIsGenuine`: no half, no rest and, of the frames in which a byte became any other, only one whose length shrank to 3, 4 or 5 is accepted; with 4 or 5 what is shown is still what was sent |
| `WholeShown` | `WholeIsShown`: the number shown is the register's, the speed with its sign |
| `AnyValueIsDrawn`, `BarAlwaysEnds` | `DrawingEnds`: the battery bar ends for each of the 65536 values, so in every reachable state |

The codec is proved first: `Sums` is a running sum (an induction, see below), the checksum of a
pack is that of its bytes, and so `parse` undoes `serialyze`.  A changed header or checksum byte is refused, and a changed byte of
the payload moves the sum by less than its width.  A larger length leaves the parser waiting for more, and one below 3 is refused;
3, 4 and 5 are accepted if two bytes of the payload, or its last and the first of the checksum, happen to fit the smaller sum.  The
invariant is
`DataInv` (theorem `DataInvariant`): `DataTypeOK`, `ParserOK` (a frame begun has not used up the
checksum's width), `OneLossPerFault` and `HalfDelivered`.  The last is what makes it inductive:
between the halves of a frame the parser is idle, if it refused the first half, or its index and sum
are those of that frame at the cut.  Without it nothing could be said of
what a second half completes.

The end of the bar grows with the value and wraps from 32766 (at 25599) to -32768 (at 25600), past
the one end, 32767, that the loop's counter can never exceed.

### Discovery and the parser of reports

`DiscoveryProofs` proves, for any set of well-formed peers, any size of the record and any number of
links:

| theorem | states |
|---|---|
| `DiscoveryTypes` | `DiscTypeOK`: the walk stays in its record and within 16 bits; `discovery_in_progress` is up exactly while a request is under way |
| `DiscoveryRightWhileItFits` | `RightWhileItFits`: as long as the record has room, the NUS client gets this peer's handles |
| `DiscoverySameScooter` | `SameScooterStaysRight`: so it does once the record is full, with one scooter and no walk cut short |
| `ParserRecognises` | `RecognisesNus`: `is_uuid_present` finds the NUS where it is offered and nowhere else |
| `ParserLeavesWalk` | `AdvSpec` implies `DiscSpec`, so the first three hold of both together |

The record is the difficulty: it survives links, so what it holds has two authors.  `DiscInv` (theorem
`DiscoveryInvariant`) is `DiscTypeOK`, `PhaseInv` (what each kind of request has behind it) and
`RecordInv`: from some position `b` on, the record holds this link's characteristics in the order of the
peer's table, those before the current one with their CCCD, and the pending request asks for exactly what
comes next.  With a single scooter, what stands before `b` is an earlier copy of the whole service
(`Leftovers`).  The client takes the last entries it finds; whether they are from before `b` or behind it, they
are the scooter's.

For the parser, `AdvInv` (theorem `ParserInvariant`) says that the index is at the beginning of a field, and
that no field behind it offers the NUS.  The step is the length byte, so the index cannot leave the beginnings;
what needs an argument is the padding byte, whose "type" is the length of the field behind it.  Were that length
6 or 7, the 16 bytes compared would include, as the seventh or the eighth byte of the UUID, the length of a third
field; these bytes of the NUS are 169 and 224, and no field is that long.

### What the proofs share

`TimerQueueProofs` has the facts about the ring and its types that all clients of the ring rest on.
`NaturalSets` has the least and greatest elements of sets of numbers, and induction stated for a set: a set that
contains 0 and with each number the next contains all.  With the set of all `n` up to which a recursive function
is defined and behaves, this replaces the induction theorem over predicates and carries the proofs about `Sums` and
`Bytes`.

### Only model-checked

* Liveness (`SessionEndsInScan`, `SessionPolls`, `WalkEnds`, `ReleaseSleeps`): TLAPS has no support for `ENABLED`.

## 6. What is not modelled

* The display driver but for the battery bar: framebuffer, text and bitmaps are
  sequential data, and the transfer blocks its caller; that it may find the display
  off is `DrawUnpowered` of `ButtonSleep`.  I2C is hardware registers and busy-waiting.
* Advertising reports that are not well-formed: what `is_uuid_present` makes of a
  field that is longer than the rest of the report depends on what follows in memory.
* Timer lists after a misread counter (`TimerList` stops there), and the half-range
  limit of `m_ticks_latest`.
* The SoftDevice other than by its events and return codes; start-up before
  `scan_start`; static configuration.
* Cases the configuration excludes: scan timeout (`SCAN_TIMEOUT` is 0), pairing
  requests (never sent to a central that did not ask), `app_timer_stop_all`,
  `ninebot_create_pack`, `ninebot_uninit`, `ninebot_get_current_data` (never
  called).
* Errors of the SoftDevice's discovery calls in `DbDiscovery`; a request over an
  inverted range counts as answered with an error, which is how a peer answers it.
  What a wrong CCCD handle does to the session: `ScooterLink` has it as
  `disc_partial`.

* The rest of the repository, Nordic's SDK with its examples for other boards, is not
  part of the firmware.

## 7. What is left

1. `TimerList` beyond a misread counter: a bound for the lateness instead of a stop.

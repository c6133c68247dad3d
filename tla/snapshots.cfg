\* The push loop, two handlers and two changes of the guest.
CONSTANTS
  MaxVersion = 2
  Statuses = {"running", "stopped", "paused"}
  Ticker = ticker
  Handlers = {h1, h2}
SPECIFICATION FairSpec
INVARIANTS TypeOK PushShowsAction
PROPERTY ViewSettles

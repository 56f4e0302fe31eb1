SPECIFICATION MCSpec
CONSTANTS
  Title = {t1, t2}
  NoTitle = noTitle
  DelayPolls = 2
  Registered = TRUE
  MaxInstances = 2
  Callers = {"a", "b"}
  Slots = {1, 2}
  Messages = {"m", "n"}
INVARIANTS
  PopupInItsTime
  DispatcherHasWaiter
  PopupsShowTheirMessage
PROPERTIES
  NoticeComesToAnEnd
  SlotsComeBack
CHECK_DEADLOCK FALSE

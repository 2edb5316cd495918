SPECIFICATION AdminSpec
CONSTANTS
  BaseThreadCount = 3
  ListenerCount <- MCListeners
  AdminScenarios <- MCAdminScenarios
  MaxSize = 2
INVARIANTS NoLostEntry NotificationIsSound ManagerIsSound SuperBlockIsTrue SuspensionIsSound
PROPERTIES OperationsFinish

SPECIFICATION Spec
CONSTANTS
  k1 = k1
  k2 = k2
  c1 = c1
  c2 = c2
  p = p
  None = None
  DynamicSource = DynamicSource
  Conns <- MCConns
  Consumers <- MCConsumers
  Producers <- MCProducers
  ConnOf <- MCConnOf
  Uuid <- MCUuid
  Named = {examples}
  MaxMessages = 2
  MaxCredit = 1
  MaxEvents = 3
CHECK_DEADLOCK FALSE
INVARIANTS
  TypeOK
  NoStaleConsumer
  NoIdleQueue
  NoStrandedMessage
  DeliveredOnceInOrder
PROPERTIES
  NamedAddressesAreFifo

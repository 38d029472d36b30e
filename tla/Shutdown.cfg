CONSTANTS
  main = main
  Consumers = {main}
  MaxRequests = 5
  Invalid = {2}
SPECIFICATION FairSpec
PROPERTY MailboxSpec
PROPERTY LatestObeyed
